---- MODULE Spec2Model ----
(***************************************************************************)
(* Engagement aggregation core of guIA-backend: follow/unfollow, like/     *)
(* unlike and itinerary ratings, as the services and repositories run them *)
(* against PostgreSQL through GORM.                                        *)
(*                                                                         *)
(* The store is PostgreSQL at its default isolation level (READ COMMITTED; *)
(* no call of r.db.Transaction passes sql.TxOptions): every statement sees *)
(* the rows committed when it runs plus the writes of its own transaction, *)
(* a transaction's writes become visible to the others when it commits,    *)
(* and an UPDATE or DELETE of a row waits for the transaction that holds   *)
(* that row's lock.  `column = column + d` is evaluated by the store under *)
(* the row lock, so it commutes with every other such update; it is        *)
(* applied here at the commit of its transaction.                          *)
(*                                                                         *)
(* No model declares a unique index on (follower_id, followed_id),         *)
(* (user_id, post_id) or (user_id, itinerary_id): a relation is a bag of   *)
(* rows, kept as the number of rows (or the sequence of scores) per pair.  *)
(*                                                                         *)
(* Each worker is one request-handling goroutine running one service call; *)
(* pc is its position in that call.                                        *)
(***************************************************************************)
EXTENDS Integers, Sequences, FiniteSets, TLC

\* Registered accounts are 1..NumAccounts; MissingID is an id with no row.
NumAccounts == 2
\* Parallel request workers.
NumWorkers == 2
\* Service calls started in one behaviour.
MaxCalls == 3

Accounts == 1..NumAccounts
MissingID == NumAccounts + 1
AnyID == Accounts \cup {MissingID}
Workers == 1..NumWorkers
Pairs == AnyID \X AnyID

\* The posts that exist; MissingPost is an id with no row.
Posts == {1}
MissingPost == Cardinality(Posts) + 1
AnyPost == Posts \cup {MissingPost}

\* The itineraries that exist; MissingItinerary is an id with no row.
Itineraries == {1}
MissingItinerary == Cardinality(Itineraries) + 1
AnyItinerary == Itineraries \cup {MissingItinerary}

\* Scores a caller sends: below, inside and above the range 1..5.
ScoreInputs == {0, 2, 4, 5, 6}

VARIABLES
  isActive,        \* users.is_active
  followersCount,  \* users.followers_count
  followingCount,  \* users.following_count
  follows,         \* follows rows: number of rows per (follower_id, followed_id)
  postsCount,      \* users.posts_count
  itinerariesCount,  \* users.itineraries_count
  postActive,      \* posts.is_active
  likesCount,      \* posts.likes_count
  likes,           \* post_likes rows: number of rows per (user_id, post_id)
  isPublic,        \* itineraries.is_public
  ratingsCount,    \* itineraries.ratings_count
  averageRating,   \* itineraries.average_rating, a fraction <<num, den>>
  ratings,         \* itinerary_ratings rows: the scores per (user_id, itinerary_id)
  postRows,        \* posts rows a read query scans: the columns it looks at
  itineraryRows,   \* itineraries rows a read query scans
  pc,              \* position of each worker in its service call
  call,            \* the call a worker is running: operation and arguments
  loc,             \* a worker's locals: rows affected, ratingsCount, avgRating,
                   \* and the row it loaded to edit
  last,            \* the call that returned most recently, with its result
  calls            \* number of calls started

followStore ==
  <<isActive, followersCount, followingCount, follows, postsCount,
    itinerariesCount>>

likeStore == <<postActive, likesCount, likes, postRows>>

rateStore == <<isPublic, ratingsCount, averageRating, ratings, itineraryRows>>

vars == <<followStore, likeStore, rateStore, pc, call, loc, last, calls>>

NoLocals == [n |-> 0, cnt |-> 0, avg |-> <<0, 1>>, row |-> <<>>]

NoCall == [op |-> "none", u |-> 0, x |-> 0, score |-> 0]

Call(o, a, b, s) == [op |-> o, u |-> a, x |-> b, score |-> s]

Outcome(c, r) ==
  [op |-> c.op, u |-> c.u, x |-> c.x, score |-> c.score, res |-> r,
   page |-> <<>>]

\* The outcome of a read: the ids of the rows it returned, in order.
Listing(c, ids) == [Outcome(c, "ok") EXCEPT !.page = ids]

RECURSIVE SumOver(_, _)
SumOver(S, f) ==
  IF S = {} THEN 0
  ELSE LET e == CHOOSE e \in S : TRUE IN f[e] + SumOver(S \ {e}, f)

\* The service call of worker w returns r; c is the call.
Return(w, c, r) ==
  /\ pc' = [pc EXCEPT ![w] = "idle"]
  /\ call' = [call EXCEPT ![w] = NoCall]
  /\ loc' = [loc EXCEPT ![w] = NoLocals]
  /\ last' = Outcome(c, r)

\* Worker w moves on to position p of call c.
Goto(w, c, p) ==
  /\ pc' = [pc EXCEPT ![w] = p]
  /\ call' = [call EXCEPT ![w] = c]
  /\ UNCHANGED <<loc, last>>

\* A new request is served by the first worker that is free (workers are
\* interchangeable), as long as the budget of calls lasts.
CanStart(w) ==
  /\ pc[w] = "idle"
  /\ \A v \in Workers : v < w => pc[v] # "idle"
  /\ calls < MaxCalls

(***************************************************************************)
(* UserRepository                                                          *)
(***************************************************************************)

\* Variant of UserGetByID without the is_active filter.
UserGetByID_AnyStatus(id) == id \in Accounts

\* GetByID: WHERE id = ? AND is_active = true
UserGetByID(id) == id \in Accounts /\ isActive[id]

\* IsFollowing: COUNT(*) > 0 WHERE follower_id = ? AND followed_id = ?
IsFollowing(a, b) == follows[<<a, b>>] > 0

\* UPDATE users SET c = c + d WHERE id = ?  (no row, no effect)
AddTo(counter, id, d) ==
  IF id \in Accounts THEN [counter EXCEPT ![id] = @ + d] ELSE counter

\* follows has a foreign key to users (Follow.Follower, Follow.Followed):
\* an INSERT naming an id without a row is refused.
FollowInsertOk(a, b) == a \in Accounts /\ b \in Accounts

\* The writes of the FollowUser transaction, applied at its commit.
FollowUserTx(a, b) ==
  /\ follows' = [follows EXCEPT ![<<a, b>>] = @ + 1]
  /\ followingCount' = AddTo(followingCount, a, 1)
  /\ followersCount' = AddTo(followersCount, b, 1)

\* Rows a DELETE ... WHERE follower_id = a AND followed_id = b removes.
UnfollowRows(a, b) == follows[<<a, b>>]

\* Variant of UnfollowUserTx that forgets the UPDATE of followers_count.
UnfollowUserTx_KeepsFollowers(a, b, k) ==
  /\ follows' = [follows EXCEPT ![<<a, b>>] = @ - k]
  /\ followingCount' = AddTo(followingCount, a, -1)
  /\ followersCount' = followersCount

\* The writes of the UnfollowUser transaction, applied at its commit;
\* k is the number of rows its DELETE removed.
UnfollowUserTx(a, b, k) ==
  /\ follows' = [follows EXCEPT ![<<a, b>>] = @ - k]
  /\ followingCount' = AddTo(followingCount, a, -1)
  /\ followersCount' = AddTo(followersCount, b, -1)

\* Another transaction holds the lock of rows of (a, b) it deleted.
FollowRowsLocked(w, a, b) ==
  \E v \in Workers \ {w} :
    /\ pc[v] = "unfollowCommit"
    /\ call[v].u = a /\ call[v].x = b
    /\ loc[v].n > 0

(***************************************************************************)
(* UserService                                                             *)
(***************************************************************************)

\* The caller's id is the user_id of its token, the id of a registered
\* account (rows of users are never removed, Delete clears is_active); an id
\* without a row calls only on itself.
CallerID(a, b) == a \in Accounts \/ a = b

\* Variant of FollowUser without the comparison of the two ids.
FollowUser_NoSelfCheck(w) ==
  \E a \in AnyID, b \in AnyID :
    LET c == Call("follow", a, b, 0) IN
    /\ CallerID(a, b)
    /\ CanStart(w)
    /\ calls' = calls + 1
    /\ UNCHANGED <<followStore, likeStore, rateStore>>
    /\ IF ~UserGetByID(b) THEN Return(w, c, "NotFoundError")
       ELSE Goto(w, c, "isFollowing")

\* FollowUser, up to the lookup of the followed account.
FollowUser(w) ==
  \E a \in AnyID, b \in AnyID :
    LET c == Call("follow", a, b, 0) IN
    /\ CallerID(a, b)
    /\ CanStart(w)
    /\ calls' = calls + 1
    /\ UNCHANGED <<followStore, likeStore, rateStore>>
    /\ IF a = b THEN Return(w, c, "SelfReferenceError")
       ELSE IF ~UserGetByID(b) THEN Return(w, c, "NotFoundError")
       ELSE Goto(w, c, "isFollowing")

\* FollowUser: the IsFollowing check.
FollowCheck(w) ==
  /\ pc[w] = "isFollowing"
  /\ UNCHANGED <<followStore, likeStore, rateStore, calls>>
  /\ IF IsFollowing(call[w].u, call[w].x)
     THEN Return(w, call[w], "AlreadyExistsError")
     ELSE Goto(w, call[w], "followTx")

\* FollowUser: the repository transaction (INSERT, two UPDATEs, COMMIT).
FollowCommit(w) ==
  /\ pc[w] = "followTx"
  /\ UNCHANGED <<isActive, postsCount, itinerariesCount>>
  /\ UNCHANGED <<likeStore, rateStore, calls>>
  /\ IF FollowInsertOk(call[w].u, call[w].x)
     THEN /\ FollowUserTx(call[w].u, call[w].x)
          /\ Return(w, call[w], "ok")
     ELSE /\ UNCHANGED <<follows, followersCount, followingCount>>
          /\ Return(w, call[w], "StorageError")

\* Variant of UnfollowUser without the IsFollowing check.
UnfollowUser_NoCheck(w) ==
  \E a \in AnyID, b \in AnyID :
    LET c == Call("unfollow", a, b, 0) IN
    /\ CallerID(a, b)
    /\ CanStart(w)
    /\ calls' = calls + 1
    /\ UNCHANGED <<followStore, likeStore, rateStore>>
    /\ IF a = b THEN Return(w, c, "InvalidOperation")
       ELSE Goto(w, c, "unfollowTx")

\* UnfollowUser, up to the IsFollowing check.
UnfollowUser(w) ==
  \E a \in AnyID, b \in AnyID :
    LET c == Call("unfollow", a, b, 0) IN
    /\ CallerID(a, b)
    /\ CanStart(w)
    /\ calls' = calls + 1
    /\ UNCHANGED <<followStore, likeStore, rateStore>>
    /\ IF a = b THEN Return(w, c, "InvalidOperation")
       ELSE IF ~IsFollowing(a, b) THEN Return(w, c, "NotFoundError")
       ELSE Goto(w, c, "unfollowTx")

\* UnfollowUser: the DELETE of the transaction; it waits for a row lock.
UnfollowDelete(w) ==
  /\ pc[w] = "unfollowTx"
  /\ ~FollowRowsLocked(w, call[w].u, call[w].x)
  /\ loc' = [loc EXCEPT ![w].n = UnfollowRows(call[w].u, call[w].x)]
  /\ pc' = [pc EXCEPT ![w] = "unfollowCommit"]
  /\ UNCHANGED <<followStore, likeStore, rateStore, call, last, calls>>

\* UnfollowUser: the two UPDATEs and the COMMIT.
UnfollowCommit(w) ==
  /\ pc[w] = "unfollowCommit"
  /\ UnfollowUserTx(call[w].u, call[w].x, loc[w].n)
  /\ Return(w, call[w], "ok")
  /\ UNCHANGED <<isActive, postsCount, itinerariesCount>>
  /\ UNCHANGED <<likeStore, rateStore, calls>>

\* Variant of FollowTxError that keeps the follows row written before the
\* failing statement.
FollowTxError_KeepsRow(w) ==
  /\ pc[w] \in {"followTx", "unfollowTx", "unfollowCommit"}
  /\ Return(w, call[w], "StorageError")
  /\ follows' = [follows EXCEPT ![<<call[w].u, call[w].x>>] =
                   IF pc[w] = "followTx" THEN @ + 1 ELSE 0]
  /\ UNCHANGED <<isActive, followersCount, followingCount>>
  /\ UNCHANGED <<postsCount, itinerariesCount>>
  /\ UNCHANGED <<likeStore, rateStore, calls>>

\* A statement of the transaction returns an error (deadlock, lost
\* connection): db.Transaction rolls back and the call returns the error.
FollowTxError(w) ==
  /\ pc[w] \in {"followTx", "unfollowTx", "unfollowCommit"}
  /\ Return(w, call[w], "StorageError")
  /\ UNCHANGED <<followStore, likeStore, rateStore, calls>>

\* DeactivateAccount: UPDATE users SET is_active = false WHERE id = ?
DeactivateAccount(w) ==
  \E a \in Accounts :
    /\ CanStart(w)
    /\ isActive[a]
    /\ calls' = calls + 1
    /\ isActive' = [isActive EXCEPT ![a] = FALSE]
    /\ last' = Outcome(Call("deactivate", a, 0, 0), "ok")
    /\ UNCHANGED <<followersCount, followingCount, follows, pc, call, loc>>
    /\ UNCHANGED <<postsCount, itinerariesCount, likeStore, rateStore>>

\* The users row of account u as GetByID loads it: the columns modelled.
UserRow(u) ==
  [isActive |-> isActive[u], followersCount |-> followersCount[u],
   followingCount |-> followingCount[u], postsCount |-> postsCount[u],
   itinerariesCount |-> itinerariesCount[u]]

\* UserRepository.Update: db.Save(user) writes every column of the struct
\* to the row with its id.
UserUpdate(u, row) ==
  /\ isActive' = [isActive EXCEPT ![u] = row.isActive]
  /\ followersCount' = [followersCount EXCEPT ![u] = row.followersCount]
  /\ followingCount' = [followingCount EXCEPT ![u] = row.followingCount]
  /\ postsCount' = [postsCount EXCEPT ![u] = row.postsCount]
  /\ itinerariesCount' = [itinerariesCount EXCEPT ![u] = row.itinerariesCount]

\* UserService.UpdateProfile, up to the call of Update: the user is loaded,
\* the fields of the request are validated and set on the loaded struct.
UpdateProfile(w) ==
  \E u \in Accounts, valid \in BOOLEAN :
    LET c == Call("updateProfile", u, 0, IF valid THEN 1 ELSE 0) IN
    /\ CanStart(w)
    /\ calls' = calls + 1
    /\ UNCHANGED <<followStore, likeStore, rateStore>>
    /\ IF ~UserGetByID(u) THEN Return(w, c, "NotFoundError")
       ELSE IF ~valid THEN Return(w, c, "ValidationError")
       ELSE /\ pc' = [pc EXCEPT ![w] = "saveUser"]
            /\ call' = [call EXCEPT ![w] = c]
            /\ loc' = [loc EXCEPT ![w].row = UserRow(u)]
            /\ UNCHANGED last

\* UserService.ChangePassword, up to the call of Update: the user is
\* loaded, the old password compared, the new one validated and hashed.
ChangePassword(w) ==
  \E u \in Accounts, valid \in BOOLEAN :
    LET c == Call("changePassword", u, 0, IF valid THEN 1 ELSE 0) IN
    /\ CanStart(w)
    /\ calls' = calls + 1
    /\ UNCHANGED <<followStore, likeStore, rateStore>>
    /\ IF ~UserGetByID(u) THEN Return(w, c, "NotFoundError")
       ELSE IF ~valid THEN Return(w, c, "ValidationError")
       ELSE /\ pc' = [pc EXCEPT ![w] = "saveUser"]
            /\ call' = [call EXCEPT ![w] = c]
            /\ loc' = [loc EXCEPT ![w].row = UserRow(u)]
            /\ UNCHANGED last

\* UpdateProfile / ChangePassword: userRepo.Update of the loaded struct.
SaveUser(w) ==
  /\ pc[w] = "saveUser"
  /\ UserUpdate(call[w].u, loc[w].row)
  /\ Return(w, call[w], "ok")
  /\ UNCHANGED <<follows, likeStore, rateStore, calls>>

(***************************************************************************)
(* PostRepository                                                          *)
(***************************************************************************)

\* GetByID: WHERE id = ? AND is_active = true (and deleted_at IS NULL, a
\* column of the row where the table is spelled out).
PostGetByID(p) ==
  IF p \in DOMAIN postRows
  THEN postRows[p].isActive /\ ~postRows[p].deleted
  ELSE p \in Posts /\ postActive[p]

\* posts.likes_count of post p in the table the listings scan.
WithLikes(p, n) ==
  IF p \in DOMAIN postRows THEN [postRows EXCEPT ![p].likesCount = n]
  ELSE postRows

\* IsLiked: COUNT(*) > 0 WHERE user_id = ? AND post_id = ?
IsLiked(u, p) == likes[<<u, p>>] > 0

\* LikePost: SELECT ... First(&existingLike) finds a row.
ExistingLike(u, p) == likes[<<u, p>>] > 0

\* The writes of the LikePost transaction, applied at its commit.
LikePostTx(u, p) ==
  /\ likes' = [likes EXCEPT ![<<u, p>>] = @ + 1]
  /\ likesCount' = [likesCount EXCEPT ![p] = @ + 1]
  /\ postRows' = WithLikes(p, likesCount[p] + 1)

\* result.RowsAffected of DELETE ... WHERE user_id = u AND post_id = p
UnlikeRows(u, p) == likes[<<u, p>>]

\* Variant of UnlikePostTx that never touches likes_count.
UnlikePostTx_KeepsCount(u, p, k) ==
  /\ likes' = [likes EXCEPT ![<<u, p>>] = @ - k]
  /\ likesCount' = likesCount
  /\ postRows' = postRows

\* The writes of the UnlikePost transaction, applied at its commit;
\* k is result.RowsAffected of its DELETE.
UnlikePostTx(u, p, k) ==
  /\ likes' = [likes EXCEPT ![<<u, p>>] = @ - k]
  /\ likesCount' = IF k > 0 THEN [likesCount EXCEPT ![p] = @ - 1]
                            ELSE likesCount
  /\ postRows' = IF k > 0 THEN WithLikes(p, likesCount[p] - 1) ELSE postRows

\* Another transaction holds the lock of rows of (u, p) it deleted.
LikeRowsLocked(w, u, p) ==
  \E v \in Workers \ {w} :
    /\ pc[v] = "unlikeCommit"
    /\ call[v].u = u /\ call[v].x = p
    /\ loc[v].n > 0

(***************************************************************************)
(* PostService                                                             *)
(***************************************************************************)

\* LikePost, up to the lookup of the post.
LikePost(w) ==
  \E u \in Accounts, p \in AnyPost :
    LET c == Call("like", u, p, 0) IN
    /\ CanStart(w)
    /\ calls' = calls + 1
    /\ UNCHANGED <<followStore, likeStore, rateStore>>
    /\ IF ~PostGetByID(p) THEN Return(w, c, "NotFoundError")
       ELSE Goto(w, c, "isLiked")

\* LikePost: the IsLiked check.
LikeCheck(w) ==
  /\ pc[w] = "isLiked"
  /\ UNCHANGED <<followStore, likeStore, rateStore, calls>>
  /\ IF IsLiked(call[w].u, call[w].x)
     THEN Return(w, call[w], "AlreadyExistsError")
     ELSE Goto(w, call[w], "likeTx")

\* LikePost: the transaction's SELECT of an existing like; if it finds one
\* the transaction returns nil and the call succeeds without a write.
LikeSelect(w) ==
  /\ pc[w] = "likeTx"
  /\ UNCHANGED <<followStore, likeStore, rateStore, calls>>
  /\ IF ExistingLike(call[w].u, call[w].x)
     THEN Return(w, call[w], "ok")
     ELSE Goto(w, call[w], "likeInsert")

\* LikePost: the INSERT, the UPDATE of likes_count and the COMMIT.
LikeCommit(w) ==
  /\ pc[w] = "likeInsert"
  /\ LikePostTx(call[w].u, call[w].x)
  /\ Return(w, call[w], "ok")
  /\ UNCHANGED <<followStore, postActive, rateStore, calls>>

\* UnlikePost, up to the lookup of the post.
UnlikePost(w) ==
  \E u \in Accounts, p \in AnyPost :
    LET c == Call("unlike", u, p, 0) IN
    /\ CanStart(w)
    /\ calls' = calls + 1
    /\ UNCHANGED <<followStore, likeStore, rateStore>>
    /\ IF ~PostGetByID(p) THEN Return(w, c, "NotFoundError")
       ELSE Goto(w, c, "isLikedU")

\* UnlikePost: the IsLiked check.
UnlikeCheck(w) ==
  /\ pc[w] = "isLikedU"
  /\ UNCHANGED <<followStore, likeStore, rateStore, calls>>
  /\ IF ~IsLiked(call[w].u, call[w].x)
     THEN Return(w, call[w], "NotLikedError")
     ELSE Goto(w, call[w], "unlikeTx")

\* UnlikePost: the DELETE of the transaction; it waits for a row lock.
UnlikeDelete(w) ==
  /\ pc[w] = "unlikeTx"
  /\ ~LikeRowsLocked(w, call[w].u, call[w].x)
  /\ loc' = [loc EXCEPT ![w].n = UnlikeRows(call[w].u, call[w].x)]
  /\ pc' = [pc EXCEPT ![w] = "unlikeCommit"]
  /\ UNCHANGED <<followStore, likeStore, rateStore, call, last, calls>>

\* UnlikePost: the UPDATE of likes_count if rows were deleted, and the COMMIT.
UnlikeCommit(w) ==
  /\ pc[w] = "unlikeCommit"
  /\ UnlikePostTx(call[w].u, call[w].x, loc[w].n)
  /\ Return(w, call[w], "ok")
  /\ UNCHANGED <<followStore, postActive, rateStore, calls>>

\* A statement of the transaction returns an error: rollback.
LikeTxError(w) ==
  /\ pc[w] \in {"likeTx", "likeInsert", "unlikeTx", "unlikeCommit"}
  /\ Return(w, call[w], "StorageError")
  /\ UNCHANGED <<followStore, likeStore, rateStore, calls>>

(***************************************************************************)
(* ItineraryRepository                                                     *)
(***************************************************************************)

RECURSIVE SeqSum(_)
SeqSum(q) == IF q = <<>> THEN 0 ELSE Head(q) + SeqSum(Tail(q))

RECURSIVE GCD(_, _)
GCD(a, b) == IF b = 0 THEN a ELSE GCD(b, a % b)

\* AVG(rating) over rows of total s and number k, as a fraction in lowest
\* terms; the float64 it is scanned into is not rounded here.
Mean(s, k) == IF k = 0 THEN <<0, 1>> ELSE <<s \div GCD(s, k), k \div GCD(s, k)>>

\* GetByID: WHERE id = ? (and deleted_at IS NULL, a column of the row where
\* the table is spelled out).
ItineraryGetByID(i) ==
  IF i \in DOMAIN itineraryRows THEN ~itineraryRows[i].deleted
  ELSE i \in Itineraries

\* itineraries.ratings_count and average_rating of itinerary i in the table
\* the listings scan.
WithRatingStats(i, k, m) ==
  IF i \in DOMAIN itineraryRows
  THEN [itineraryRows EXCEPT ![i].ratingsCount = k, ![i].averageRating = m]
  ELSE itineraryRows

\* GetUserRating: WHERE user_id = ? AND itinerary_id = ? finds a row.
GetUserRating(u, i) == ratings[<<u, i>>] # <<>>

\* Variant of TxRows in which a DELETE removes no row.
TxRows_DeleteKeeps(c, k, u, i) ==
  LET q == ratings[<<u, i>>] IN
  IF c.u # u \/ c.x # i THEN q
  ELSE IF c.op = "rate" THEN Append(q, c.score)
  ELSE IF c.op = "updateRating"
       THEN [j \in 1..Len(q) |-> IF j <= k THEN c.score ELSE q[j]]
  ELSE q

\* The rows of (u, i) as the transaction of call c sees them after its own
\* write: its INSERT appended, or its UPDATE / DELETE applied to the k rows
\* it found (and locked); rows others committed later follow them.
TxRows(c, k, u, i) ==
  LET q == ratings[<<u, i>>] IN
  IF c.u # u \/ c.x # i THEN q
  ELSE IF c.op = "rate" THEN Append(q, c.score)
  ELSE IF c.op = "updateRating"
       THEN [j \in 1..Len(q) |-> IF j <= k THEN c.score ELSE q[j]]
  ELSE SubSeq(q, k + 1, Len(q))

\* COUNT(*) WHERE itinerary_id = i, inside the transaction of call c.
RatingCount(c, k, i) ==
  SumOver(Accounts, [u \in Accounts |-> Len(TxRows(c, k, u, i))])

\* SUM(rating) WHERE itinerary_id = i, inside the transaction of call c.
RatingSum(c, k, i) ==
  SumOver(Accounts, [u \in Accounts |-> SeqSum(TxRows(c, k, u, i))])

\* Variant of WriteRatingStats that writes ratings_count only.
WriteRatingStats_CountOnly(i, k, m) ==
  /\ ratingsCount' = [ratingsCount EXCEPT ![i] = k]
  /\ averageRating' = averageRating
  /\ itineraryRows' = WithRatingStats(i, k, averageRating[i])

\* updateItineraryRatingStats: the final UPDATE of the itinerary row.
WriteRatingStats(i, k, m) ==
  /\ ratingsCount' = [ratingsCount EXCEPT ![i] = k]
  /\ averageRating' = [averageRating EXCEPT ![i] = m]
  /\ itineraryRows' = WithRatingStats(i, k, m)

\* Another transaction holds the lock of rows of (u, i) it updated or deleted.
RatingRowsLocked(w, u, i) ==
  \E v \in Workers \ {w} :
    /\ pc[v] \in {"statsCount", "statsAvg", "statsCommit"}
    /\ call[v].op \in {"updateRating", "deleteRating"}
    /\ call[v].u = u /\ call[v].x = i
    /\ loc[v].n > 0

(***************************************************************************)
(* ItineraryService                                                        *)
(***************************************************************************)

\* Variant of validateRating without the upper limit.
validateRating_NoUpper(s) == ~(s < 1)

\* validateRating: nil iff 1 <= rating <= 5
validateRating(s) == ~(s < 1 \/ s > 5)

\* RateItinerary, up to the validation of the score.
RateItinerary(w) ==
  \E u \in Accounts, i \in AnyItinerary, s \in ScoreInputs :
    LET c == Call("rate", u, i, s) IN
    /\ CanStart(w)
    /\ calls' = calls + 1
    /\ UNCHANGED <<followStore, likeStore, rateStore>>
    /\ IF ~ItineraryGetByID(i) THEN Return(w, c, "NotFoundError")
       ELSE IF ~isPublic[i] THEN Return(w, c, "ForbiddenError")
       ELSE IF ~validateRating(s) THEN Return(w, c, "InvalidRangeError")
       ELSE Goto(w, c, "getUserRating")

\* RateItinerary: the GetUserRating check.
RateCheck(w) ==
  /\ pc[w] = "getUserRating"
  /\ UNCHANGED <<followStore, likeStore, rateStore, calls>>
  /\ IF GetUserRating(call[w].u, call[w].x)
     THEN Return(w, call[w], "AlreadyRatedError")
     ELSE Goto(w, call[w], "rateTx")

\* RateItinerary: the INSERT of the transaction and the COUNT that follows.
RateInsert(w) ==
  /\ pc[w] = "rateTx"
  /\ loc' = [loc EXCEPT ![w].cnt = RatingCount(call[w], 0, call[w].x)]
  /\ pc' = [pc EXCEPT ![w] = "statsAvg"]
  /\ UNCHANGED <<followStore, likeStore, rateStore, call, last, calls>>

\* UpdateRating, up to the validation of the score.
UpdateRating(w) ==
  \E u \in Accounts, i \in AnyItinerary, s \in ScoreInputs :
    LET c == Call("updateRating", u, i, s) IN
    /\ CanStart(w)
    /\ calls' = calls + 1
    /\ UNCHANGED <<followStore, likeStore, rateStore>>
    /\ IF ~GetUserRating(u, i) THEN Return(w, c, "NotRatedError")
       ELSE IF ~validateRating(s) THEN Return(w, c, "InvalidRangeError")
       ELSE Goto(w, c, "ratingTx")

\* DeleteRating, up to the GetUserRating check.
DeleteRating(w) ==
  \E u \in Accounts, i \in AnyItinerary :
    LET c == Call("deleteRating", u, i, 0) IN
    /\ CanStart(w)
    /\ calls' = calls + 1
    /\ UNCHANGED <<followStore, likeStore, rateStore>>
    /\ IF ~GetUserRating(u, i) THEN Return(w, c, "NotRatedError")
       ELSE Goto(w, c, "ratingTx")

\* UpdateRating / DeleteRating: the UPDATE or DELETE of the rating rows; it
\* waits for a row lock.
RatingWrite(w) ==
  /\ pc[w] = "ratingTx"
  /\ ~RatingRowsLocked(w, call[w].u, call[w].x)
  /\ loc' = [loc EXCEPT ![w].n = Len(ratings[<<call[w].u, call[w].x>>])]
  /\ pc' = [pc EXCEPT ![w] = "statsCount"]
  /\ UNCHANGED <<followStore, likeStore, rateStore, call, last, calls>>

\* updateItineraryRatingStats: the COUNT; the AVG is skipped if it is 0.
StatsCount(w) ==
  LET k == RatingCount(call[w], loc[w].n, call[w].x) IN
  /\ pc[w] = "statsCount"
  /\ loc' = [loc EXCEPT ![w].cnt = k]
  /\ pc' = [pc EXCEPT ![w] = IF k > 0 THEN "statsAvg" ELSE "statsCommit"]
  /\ UNCHANGED <<followStore, likeStore, rateStore, call, last, calls>>

\* updateItineraryRatingStats: the AVG; over no row it is NULL, which Scan
\* refuses, and the transaction rolls back.
StatsAvg(w) ==
  LET k == RatingCount(call[w], loc[w].n, call[w].x)
      t == RatingSum(call[w], loc[w].n, call[w].x)
  IN
  /\ pc[w] = "statsAvg"
  /\ UNCHANGED <<followStore, likeStore, rateStore, calls>>
  /\ IF k = 0
     THEN Return(w, call[w], "StorageError")
     ELSE /\ loc' = [loc EXCEPT ![w].avg = Mean(t, k)]
          /\ pc' = [pc EXCEPT ![w] = "statsCommit"]
          /\ UNCHANGED <<call, last>>

\* updateItineraryRatingStats: the UPDATE of the itinerary, and the COMMIT
\* of the transaction with its write of the rating rows.
StatsCommit(w) ==
  LET u == call[w].u
      i == call[w].x
  IN
  /\ pc[w] = "statsCommit"
  /\ ratings' = [ratings EXCEPT ![<<u, i>>] = TxRows(call[w], loc[w].n, u, i)]
  /\ WriteRatingStats(i, loc[w].cnt, loc[w].avg)
  /\ Return(w, call[w], "ok")
  /\ UNCHANGED <<followStore, likeStore, isPublic, calls>>

\* A statement of the transaction returns an error: rollback.
RatingTxError(w) ==
  /\ pc[w] \in {"rateTx", "ratingTx", "statsCount", "statsAvg", "statsCommit"}
  /\ Return(w, call[w], "StorageError")
  /\ UNCHANGED <<followStore, likeStore, rateStore, calls>>

(***************************************************************************)
(* Read queries: feed, trending, similar                                   *)
(***************************************************************************)

\* Ids of the rows a read query scans.
SnapshotIDs == {1, 2, 3}

\* The day of the read (NOW()); rows carry the day they were created on.
Now == 40

\* limit and offset as the handlers pass them on (offset is never negative).
LimitInputs == {0, 2, 51}
OffsetInputs == {0, 1}

Min(a, b) == IF a < b THEN a ELSE b

\* The orders in which the store may return the rows S for an ORDER BY
\* whose keys put a strictly before b when Before(a, b): rows equal on every
\* key come in an order the store chooses.
Orderings(S, Before(_, _)) ==
  {f \in [1..Cardinality(S) -> S] :
     /\ \A i, j \in 1..Cardinality(S) : i # j => f[i] # f[j]
     /\ \A i, j \in 1..Cardinality(S) : i < j => ~Before(f[j], f[i])}

\* LIMIT n OFFSET k of the rows in the order ord.
Page(ord, n, k) == SubSeq(ord, k + 1, Min(k + n, Len(ord)))

\* PostService.GetFeed, GetTrendingPosts and ItineraryService.GetItineraries:
\* if limit <= 0 || limit > 50 { limit = 20 }
MaxPageLimit == 50
DefaultPageLimit == 20
PageLimit(limit) ==
  IF limit <= 0 \/ limit > MaxPageLimit THEN DefaultPageLimit ELSE limit

\* A posts row as the queries see it.
PostRow(a, t, act, del, l, c) ==
  [author |-> a, createdAt |-> t, isActive |-> act, deleted |-> del,
   likesCount |-> l, commentsCount |-> c]

\* Variant of PostVisible without the soft-delete scope.
PostVisible_Unscoped(p) == postRows[p].isActive

\* gorm's soft-delete scope (deleted_at IS NULL) and is_active = true.
PostVisible(p) == postRows[p].isActive /\ ~postRows[p].deleted

\* SELECT followed_id FROM follows WHERE follower_id = v UNION SELECT v
FeedAuthors(v) == {a \in AnyID : follows[<<v, a>>] > 0} \cup {v}

\* Variant of FeedCandidates without the is_active filter.
FeedCandidates_AnyStatus(v) ==
  {p \in DOMAIN postRows :
     postRows[p].author \in FeedAuthors(v) /\ ~postRows[p].deleted}

\* GetFeed: WHERE author_id IN (...) AND is_active = true
FeedCandidates(v) ==
  {p \in DOMAIN postRows :
     postRows[p].author \in FeedAuthors(v) /\ PostVisible(p)}

\* ORDER BY created_at DESC
NewerPost(a, b) == postRows[a].createdAt > postRows[b].createdAt

\* A read changes nothing in the store: worker w runs it in one step and
\* returns o, and reads are not counted against the budget of calls.
Reads(w, o) ==
  /\ \A v \in Workers : pc[v] = "idle" /\ v >= w
  /\ last' = o
  /\ UNCHANGED <<followStore, likeStore, rateStore, pc, call, loc, calls>>

\* PostService.GetFeed: the limit is normalised, then one SELECT with LIMIT
\* and OFFSET.
GetFeed(w) ==
  \E v \in Accounts, limit \in LimitInputs, offset \in OffsetInputs :
    \E ord \in Orderings(FeedCandidates(v), NewerPost) :
      Reads(w, Listing(Call("getFeed", v, limit, offset),
                       Page(ord, PageLimit(limit), offset)))

\* The windows of the trending queries, in days.
TrendingPostsDays == 7
TrendingDays == 30

\* Variant of TrendingPostCandidates without the window.
TrendingPostCandidates_AnyAge ==
  {p \in DOMAIN postRows : PostVisible(p)}

\* GetTrendingPosts: WHERE is_active = true AND created_at > NOW() - 7 days
TrendingPostCandidates ==
  {p \in DOMAIN postRows :
     PostVisible(p) /\ postRows[p].createdAt > Now - TrendingPostsDays}

\* (likes_count * 2 + comments_count)
PostScore(p) == postRows[p].likesCount * 2 + postRows[p].commentsCount

\* ORDER BY (likes_count * 2 + comments_count) DESC, created_at DESC
HotterPost(a, b) ==
  \/ PostScore(a) > PostScore(b)
  \/ PostScore(a) = PostScore(b) /\ postRows[a].createdAt > postRows[b].createdAt

\* PostService.GetTrendingPosts: the limit is normalised, then one SELECT.
GetTrendingPosts(w) ==
  \E limit \in LimitInputs, offset \in OffsetInputs :
    \E ord \in Orderings(TrendingPostCandidates, HotterPost) :
      /\ postRows # <<>>
      /\ Reads(w, Listing(Call("getTrendingPosts", 0, limit, offset),
                          Page(ord, PageLimit(limit), offset)))

\* An itineraries row as the queries see it.
\* average_rating is a fraction <<num, den>>; avg is a whole number.
ItineraryRow(a, pub, del, t, v, l, n, avg, cat, city, country) ==
  [author |-> a, isPublic |-> pub, deleted |-> del, createdAt |-> t,
   viewsCount |-> v, likesCount |-> l, ratingsCount |-> n,
   averageRating |-> <<avg, 1>>, category |-> cat, city |-> city,
   country |-> country]

\* x > y for fractions with positive denominators.
Above(x, y) == x[1] * y[2] > y[1] * x[2]

\* The soft-delete scope of every query on itineraries, and is_public = true.
ItineraryVisible(i) == itineraryRows[i].isPublic /\ ~itineraryRows[i].deleted

\* GetTrending: WHERE is_public = true AND created_at > NOW() - 30 days
TrendingCandidates ==
  {i \in DOMAIN itineraryRows :
     ItineraryVisible(i) /\ itineraryRows[i].createdAt > Now - TrendingDays}

\* (views_count + likes_count * 2 + ratings_count * 3)
ItineraryScore(i) ==
  itineraryRows[i].viewsCount + itineraryRows[i].likesCount * 2
    + itineraryRows[i].ratingsCount * 3

\* Variant of HotterItinerary that orders by score and created_at only.
HotterItinerary_NoRating(a, b) ==
  \/ ItineraryScore(a) > ItineraryScore(b)
  \/ /\ ItineraryScore(a) = ItineraryScore(b)
     /\ itineraryRows[a].createdAt > itineraryRows[b].createdAt

\* ORDER BY (...) DESC, average_rating DESC, created_at DESC
HotterItinerary(a, b) ==
  \/ ItineraryScore(a) > ItineraryScore(b)
  \/ /\ ItineraryScore(a) = ItineraryScore(b)
     /\ \/ Above(itineraryRows[a].averageRating, itineraryRows[b].averageRating)
        \/ /\ itineraryRows[a].averageRating = itineraryRows[b].averageRating
           /\ itineraryRows[a].createdAt > itineraryRows[b].createdAt

\* ItineraryService.GetItineraries ordered by popularity: the limit is
\* normalised, then ItineraryRepository.GetTrending runs one SELECT.
GetTrending(w) ==
  \E limit \in LimitInputs, offset \in OffsetInputs :
    \E ord \in Orderings(TrendingCandidates, HotterItinerary) :
      /\ itineraryRows # <<>>
      /\ Reads(w, Listing(Call("getTrending", 0, limit, offset),
                          Page(ord, PageLimit(limit), offset)))

\* The limit of a similar listing and the one used when the requested one
\* is out of range.
MaxSimilarLimit == 20
DefaultSimilarLimit == 5

SimilarLimitInputs == {0, 1, 21}

\* An id no itineraries row has.
MissingRow == Cardinality(SnapshotIDs) + 1

\* First(&originalItinerary): the row with this id, unless soft-deleted.
SourceFound(src) == src \in DOMAIN itineraryRows /\ ~itineraryRows[src].deleted

\* category = ? OR city = ? OR country = ?
SharesPlaceOrCategory(i, src) ==
  \/ itineraryRows[i].category = itineraryRows[src].category
  \/ itineraryRows[i].city = itineraryRows[src].city
  \/ itineraryRows[i].country = itineraryRows[src].country

\* Variant of SimilarCandidates without id != ?.
SimilarCandidates_WithSource(src) ==
  {i \in DOMAIN itineraryRows :
     SharesPlaceOrCategory(i, src) /\ ItineraryVisible(i)}

\* GetSimilar: WHERE id != ? AND (category = ? OR city = ? OR country = ?)
\* AND is_public = true
SimilarCandidates(src) ==
  {i \in DOMAIN itineraryRows :
     i # src /\ SharesPlaceOrCategory(i, src) /\ ItineraryVisible(i)}

\* ORDER BY average_rating DESC, views_count DESC
BetterRated(a, b) ==
  \/ Above(itineraryRows[a].averageRating, itineraryRows[b].averageRating)
  \/ /\ itineraryRows[a].averageRating = itineraryRows[b].averageRating
     /\ itineraryRows[a].viewsCount > itineraryRows[b].viewsCount

\* ItineraryService.GetSimilarItineraries: the limit is normalised, the
\* source row is fetched, then one SELECT with LIMIT.
GetSimilar(w) ==
  \E src \in SnapshotIDs \cup {MissingRow}, limit \in SimilarLimitInputs :
    LET n == IF limit <= 0 \/ limit > MaxSimilarLimit
             THEN DefaultSimilarLimit ELSE limit
        c == Call("getSimilar", 0, src, limit)
    IN IF SourceFound(src)
       THEN \E ord \in Orderings(SimilarCandidates(src), BetterRated) :
              Reads(w, Listing(c, Page(ord, n, 0)))
       ELSE Reads(w, Outcome(c, "StorageError"))

\* The itineraries table a similar listing is read from: row 1 in category
\* "a" of city "x" in country "m", the others sharing with it the category,
\* the city, the country or nothing; any of them public, private or deleted.
SimilarItineraryRows(p) ==
  {ItineraryRow(1, st[1], st[2], Now - 1, k[2], 0, 1, k[1], at[1], at[2], at[3]) :
     st \in {<<TRUE, FALSE>>, <<FALSE, FALSE>>, <<TRUE, TRUE>>},
     k \in IF p = 1 THEN {<<2, 0>>} ELSE {<<2, 0>>, <<2, 1>>, <<4, 0>>},
     at \in IF p = 1 THEN {<<"a", "x", "m">>}
            ELSE {<<"a", "y", "n">>, <<"b", "x", "n">>, <<"b", "y", "m">>,
                  <<"b", "y", "n">>}}

\* The posts table a trending read finds: recent visible posts with few
\* likes and comments, and posts with many that are inactive, deleted or
\* 7 days old.
TrendingPostRows ==
  {PostRow(1, t, TRUE, FALSE, l, c) :
     t \in {Now - 2, Now - 1}, l \in {0, 1}, c \in {0, 2}}
    \cup {PostRow(1, Now - 1, FALSE, FALSE, 2, 2),
          PostRow(1, Now - 1, TRUE, TRUE, 2, 2),
          PostRow(1, Now - TrendingPostsDays, TRUE, FALSE, 2, 2)}

\* The itineraries table a trending read finds: recent public itineraries,
\* and high-scoring ones that are private, deleted or 30 days old.
TrendingItineraryRows ==
  {ItineraryRow(1, TRUE, FALSE, t, k[1], k[2], k[3], k[4], "c", "c", "c") :
     t \in {Now - 2, Now - 1},
     k \in {<<0, 0, 0, 0>>, <<0, 1, 0, 0>>, <<3, 0, 0, 0>>,
            <<0, 0, 1, 2>>, <<0, 0, 1, 4>>}}
    \cup {ItineraryRow(1, FALSE, FALSE, Now - 1, 9, 0, 0, 0, "c", "c", "c"),
          ItineraryRow(1, TRUE, TRUE, Now - 1, 9, 0, 0, 0, "c", "c", "c"),
          ItineraryRow(1, TRUE, FALSE, Now - TrendingDays, 9, 0, 0, 0,
                       "c", "c", "c")}

\* The author of post or itinerary p: the accounts take turns.
AuthorOf(p) == ((p - 1) % NumAccounts) + 1

InitStore ==
  /\ isActive = [a \in Accounts |-> TRUE]
  /\ followersCount = [a \in Accounts |-> 0]
  /\ followingCount = [a \in Accounts |-> 0]
  /\ follows = [p \in Pairs |-> 0]
  /\ postsCount =
       [a \in Accounts |-> Cardinality({p \in Posts : AuthorOf(p) = a})]
  /\ itinerariesCount =
       [a \in Accounts |-> Cardinality({i \in Itineraries : AuthorOf(i) = a})]
  /\ pc = [w \in Workers |-> "idle"]
  /\ call = [w \in Workers |-> NoCall]
  /\ postActive = [p \in Posts |-> TRUE]
  /\ likesCount = [p \in Posts |-> 0]
  /\ likes = [p \in Accounts \X AnyPost |-> 0]
  /\ ratingsCount = [i \in Itineraries |-> 0]
  /\ averageRating = [i \in Itineraries |-> <<0, 1>>]
  /\ ratings = [p \in Accounts \X AnyItinerary |-> <<>>]
  /\ loc = [w \in Workers |-> NoLocals]
  /\ last = Outcome(NoCall, "none")
  /\ calls = 0

\* Every itinerary is public.
\* The read queries have nothing to scan.
NoSnapshot == postRows = <<>> /\ itineraryRows = <<>>

Init == InitStore /\ isPublic = [i \in Itineraries |-> TRUE] /\ NoSnapshot

\* Itineraries are public or private, as their authors created them.
InitRate == InitStore /\ isPublic \in [Itineraries -> BOOLEAN] /\ NoSnapshot

\* No worker is inside a call and none has returned yet.
InitIdle ==
  /\ pc = [w \in Workers |-> "idle"]
  /\ call = [w \in Workers |-> NoCall]
  /\ loc = [w \in Workers |-> NoLocals]
  /\ last = Outcome(NoCall, "none")
  /\ calls = 0

\* The like and rating tables before any call.
InitEngagement ==
  /\ postActive = [p \in Posts |-> TRUE]
  /\ likesCount = [p \in Posts |-> 0]
  /\ likes = [p \in Accounts \X AnyPost |-> 0]
  /\ isPublic = [i \in Itineraries |-> TRUE]
  /\ ratingsCount = [i \in Itineraries |-> 0]
  /\ averageRating = [i \in Itineraries |-> <<0, 1>>]
  /\ ratings = [p \in Accounts \X AnyItinerary |-> <<>>]

\* The state a feed is read in: one account follows any set of other
\* accounts, with the counters that go with it, and posts created 7 days or
\* 1 day ago, active or not, soft-deleted or not.
InitFeed ==
  /\ InitIdle
  /\ InitEngagement
  /\ isActive = [a \in Accounts |-> TRUE]
  /\ \E f \in Accounts : \E followed \in SUBSET (Accounts \ {f}) :
       follows = [p \in Pairs |->
                    IF p[1] = f /\ p[2] \in followed THEN 1 ELSE 0]
  /\ followersCount =
       [x \in Accounts |-> SumOver({p \in Pairs : p[2] = x}, follows)]
  /\ followingCount =
       [x \in Accounts |-> SumOver({p \in Pairs : p[1] = x}, follows)]
  /\ itineraryRows = <<>>
  /\ itinerariesCount = [a \in Accounts |-> 0]
  /\ \E t \in [SnapshotIDs -> {Now - 7, Now - 1}],
        st \in [SnapshotIDs -> {<<TRUE, FALSE>>, <<FALSE, FALSE>>,
                               <<TRUE, TRUE>>}] :
       postRows = [p \in SnapshotIDs |->
                     PostRow(AuthorOf(p), t[p], st[p][1], st[p][2], 0, 0)]
  /\ postsCount =
       [a \in Accounts |->
          Cardinality({p \in DOMAIN postRows :
                         postRows[p].author = a /\ ~postRows[p].deleted})]

FollowStep(w) ==
  \/ FollowUser(w)
  \/ FollowCheck(w)
  \/ FollowCommit(w)
  \/ UnfollowUser(w)
  \/ UnfollowDelete(w)
  \/ UnfollowCommit(w)
  \/ FollowTxError(w)
  \/ DeactivateAccount(w)

\* No other worker is inside a call.
Alone(w) == \A v \in Workers \ {w} : pc[v] = "idle"

FollowNext == \E w \in Workers : FollowStep(w)

FollowSeqNext == \E w \in Workers : Alone(w) /\ FollowStep(w)

LikeStep(w) ==
  \/ LikePost(w)
  \/ LikeCheck(w)
  \/ LikeSelect(w)
  \/ LikeCommit(w)
  \/ UnlikePost(w)
  \/ UnlikeCheck(w)
  \/ UnlikeDelete(w)
  \/ UnlikeCommit(w)
  \/ LikeTxError(w)

LikeNext == \E w \in Workers : LikeStep(w)

LikeSeqNext == \E w \in Workers : Alone(w) /\ LikeStep(w)

RateStep(w) ==
  \/ RateItinerary(w)
  \/ RateCheck(w)
  \/ RateInsert(w)
  \/ UpdateRating(w)
  \/ DeleteRating(w)
  \/ RatingWrite(w)
  \/ StatsCount(w)
  \/ StatsAvg(w)
  \/ StatsCommit(w)
  \/ RatingTxError(w)

RateNext == \E w \in Workers : RateStep(w)

RateSeqNext == \E w \in Workers : Alone(w) /\ RateStep(w)

\* The service a call belongs to.
ServiceOf(op) ==
  CASE op \in {"follow", "unfollow", "deactivate"} -> "users"
    [] op \in {"like", "unlike", "createPost", "deletePost", "updatePost"}
         -> "posts"
    [] op \in {"rate", "updateRating", "deleteRating", "createItinerary",
               "deleteItinerary", "updateItinerary", "getItineraryByID"}
         -> "itineraries"
    [] OTHER -> "none"

\* The services called so far.
Called ==
  ({ServiceOf(last.op)} \cup {ServiceOf(call[w].op) : w \in Workers})
    \ {"none"}

\* Calls one at a time, all of one service: the three services keep
\* separate tables, and a call of one neither reads nor writes a table of
\* another.
AllSeqNext ==
  \E w \in Workers :
    /\ Alone(w)
    /\ \/ Called \subseteq {"users"} /\ FollowStep(w)
       \/ Called \subseteq {"posts"} /\ LikeStep(w)
       \/ Called \subseteq {"itineraries"} /\ RateStep(w)

(***************************************************************************)
(* Handlers: the HTTP status of an error                                   *)
(***************************************************************************)

\* The message of the error a service returns (accents left out).
ServiceMessage(op, res) ==
  CASE op = "follow" /\ res = "SelfReferenceError" ->
         "voce nao pode seguir a si mesmo"
    [] op = "follow" /\ res = "NotFoundError" -> "usuario nao encontrado"
    [] op = "follow" /\ res = "AlreadyExistsError" ->
         "voce ja esta seguindo este usuario"
    [] op = "unfollow" /\ res = "InvalidOperation" -> "operacao invalida"
    [] op = "unfollow" /\ res = "NotFoundError" ->
         "voce nao esta seguindo este usuario"
    [] op \in {"like", "unlike"} /\ res = "NotFoundError" ->
         "post nao encontrado"
    [] op = "like" /\ res = "AlreadyExistsError" -> "voce ja curtiu este post"
    [] op = "unlike" /\ res = "NotLikedError" -> "voce nao curtiu este post"
    [] op = "rate" /\ res = "NotFoundError" -> "roteiro nao encontrado"
    [] op = "rate" /\ res = "ForbiddenError" ->
         "nao e possivel avaliar roteiros privados"
    [] op = "rate" /\ res = "AlreadyRatedError" ->
         "voce ja avaliou este roteiro"
    [] op \in {"rate", "updateRating"} /\ res = "InvalidRangeError" ->
         "avaliacao deve estar entre 1 e 5"
    [] op \in {"updateRating", "deleteRating"} /\ res = "NotRatedError" ->
         "voce ainda nao avaliou este roteiro"
    [] op = "getSimilar" -> "erro ao buscar roteiros similares"
    [] OTHER -> "erro do banco de dados"

\* contains(msg, pat) of the handlers, for the patterns they look for: the
\* pairs of a message and a pattern that is a substring of it.
Occurrences ==
  {<<"voce nao pode seguir a si mesmo", "nao pode seguir a si mesmo">>,
   <<"usuario nao encontrado", "nao encontrado">>,
   <<"post nao encontrado", "nao encontrado">>,
   <<"roteiro nao encontrado", "nao encontrado">>,
   <<"voce ja esta seguindo este usuario", "ja esta seguindo">>,
   <<"voce nao esta seguindo este usuario", "nao esta seguindo">>,
   <<"voce ja curtiu este post", "ja curtiu">>,
   <<"voce nao curtiu este post", "nao curtiu">>,
   <<"voce ja avaliou este roteiro", "ja avaliou">>,
   <<"voce ainda nao avaliou este roteiro", "ainda nao avaliou">>,
   <<"avaliacao deve estar entre 1 e 5", "deve estar entre">>}

contains(msg, pat) == <<msg, pat>> \in Occurrences

StatusOK == 200
StatusBadRequest == 400
StatusNotFound == 404
StatusConflict == 409
StatusInternalServerError == 500

\* The switch of a handler on the message of the error: its cases in
\* order, each a set of patterns and the status it selects.
ErrorCases(op) ==
  CASE op = "follow" ->
         <<<<{"nao encontrado"}, StatusNotFound>>,
           <<{"nao pode seguir a si mesmo", "ja esta seguindo"},
             StatusConflict>>,
           <<{"invalido"}, StatusBadRequest>>>>
    [] op = "unfollow" ->
         <<<<{"nao esta seguindo"}, StatusConflict>>,
           <<{"invalido"}, StatusBadRequest>>>>
    [] op = "like" ->
         <<<<{"nao encontrado"}, StatusNotFound>>,
           <<{"ja curtiu"}, StatusConflict>>>>
    [] op = "unlike" ->
         <<<<{"nao encontrado"}, StatusNotFound>>,
           <<{"nao curtiu"}, StatusConflict>>>>
    [] op = "rate" ->
         <<<<{"nao encontrado"}, StatusNotFound>>,
           <<{"ja avaliou"}, StatusConflict>>,
           <<{"deve estar entre", "invalido"}, StatusBadRequest>>>>
    [] op = "updateRating" ->
         <<<<{"ainda nao avaliou"}, StatusNotFound>>,
           <<{"deve estar entre", "invalido"}, StatusBadRequest>>>>
    [] op = "deleteRating" ->
         <<<<{"ainda nao avaliou"}, StatusNotFound>>>>
    [] OTHER -> <<>>

\* The status the first case that matches selects; 500 when none does.
RECURSIVE SwitchStatus(_, _)
SwitchStatus(cases, msg) ==
  IF cases = <<>> THEN StatusInternalServerError
  ELSE IF \E pat \in Head(cases)[1] : contains(msg, pat)
       THEN Head(cases)[2]
       ELSE SwitchStatus(Tail(cases), msg)

\* The status a handler answers outcome o with.  RateItineraryRequest binds
\* rating with min=1,max=5, so a rating out of range is answered 400 before
\* the service is called.
HTTPStatus(o) ==
  IF o.op \in {"rate", "updateRating"} /\ o.score \notin 1..5
  THEN StatusBadRequest
  ELSE IF o.res = "ok" THEN StatusOK
  ELSE SwitchStatus(ErrorCases(o.op), ServiceMessage(o.op, o.res))

ErrorsNext ==
  \/ AllSeqNext
  \/ \E w \in Workers : Alone(w) /\ GetSimilar(w)

\* The state a trending listing is read in: a table of posts, or a table
\* of itineraries.
InitTrending ==
  /\ InitStore
  /\ isPublic = [i \in Itineraries |-> TRUE]
  /\ \/ postRows \in [SnapshotIDs -> TrendingPostRows] /\ itineraryRows = <<>>
     \/ itineraryRows \in [SnapshotIDs -> TrendingItineraryRows]
          /\ postRows = <<>>

TrendingNext == \E w \in Workers : GetTrendingPosts(w) \/ GetTrending(w)

\* Trending reads of a table of posts or itineraries.
SpecTrending == InitTrending /\ [][TrendingNext]_vars

\* The state a similar listing is read in.
InitSimilar ==
  /\ InitStore
  /\ isPublic = [i \in Itineraries |-> TRUE]
  /\ postRows = <<>>
  /\ \E rows \in [SnapshotIDs -> UNION {SimilarItineraryRows(p) : p \in SnapshotIDs}] :
       /\ \A p \in SnapshotIDs : rows[p] \in SimilarItineraryRows(p)
       /\ itineraryRows = rows

SimilarNext == \E w \in Workers : GetSimilar(w)

\* Similar listings read from a table of itineraries.
SpecSimilar == InitSimilar /\ [][SimilarNext]_vars

FeedNext == \E w \in Workers : GetFeed(w)

\* Feed reads of a state of the follow graph and the posts.
SpecFeed == InitFeed /\ [][FeedNext]_vars

\* Rating calls of parallel workers.
SpecRate == InitRate /\ [][RateNext]_vars

\* The same calls, one at a time.
SpecRateSeq == InitRate /\ [][RateSeqNext]_vars

\* Like / unlike calls of parallel workers.
SpecLike == Init /\ [][LikeNext]_vars

\* The same calls, one at a time.
SpecLikeSeq == Init /\ [][LikeSeqNext]_vars

\* Follow, like or rating calls, one at a time.
SpecAllSeq == InitRate /\ [][AllSeqNext]_vars

\* Calls of the eight operations whose errors the handlers classify.
SpecErrors == InitRate /\ [][ErrorsNext]_vars

\* Follow / unfollow calls of parallel workers.
SpecFollow == Init /\ [][FollowNext]_vars

\* The same calls, one at a time.
SpecFollowSeq == Init /\ [][FollowSeqNext]_vars

(***************************************************************************)
(* Posts and itineraries: create and delete                                *)
(***************************************************************************)

MaxOf(S) == CHOOSE m \in S : \A x \in S : x <= m

\* The id the sequence of a table gives its next row.
NextID(rows, missing) == MaxOf(DOMAIN rows \cup {missing}) + 1

\* PostRepository.Create: INSERT of the post and posts_count + 1 of its
\* author, in one transaction.
CreatePostTx(u, id) ==
  /\ postRows' = (id :> PostRow(u, Now, TRUE, FALSE, 0, 0)) @@ postRows
  /\ postsCount' = AddTo(postsCount, u, 1)

\* PostService.CreatePost: the post is valid; the repository transaction.
CreatePost(w) ==
  \E u \in Accounts :
    LET c == Call("createPost", u, NextID(postRows, MissingPost), 0) IN
    /\ CanStart(w)
    /\ calls' = calls + 1
    /\ CreatePostTx(u, c.x)
    /\ Goto(w, c, "createdPost")
    /\ UNCHANGED <<isActive, followersCount, followingCount, follows>>
    /\ UNCHANGED <<itinerariesCount, postActive, likesCount, likes, rateStore>>

\* PostService.CreatePost: the GetByID of the post it created.
CreatePostRead(w) ==
  /\ pc[w] = "createdPost"
  /\ UNCHANGED <<followStore, likeStore, rateStore, calls>>
  /\ Return(w, call[w], IF PostGetByID(call[w].x) THEN "ok" ELSE "StorageError")

\* First(&post, id) in the transaction of Delete: the soft-delete scope only.
PostFirst(p) == p \in DOMAIN postRows /\ ~postRows[p].deleted

\* PostRepository.Delete after its First: UPDATE posts SET deleted_at = now
\* WHERE id = ? AND deleted_at IS NULL (no row is no error), posts_count - 1
\* of the author it read, COMMIT.
DeletePostTx(p, a) ==
  /\ postRows' = [postRows EXCEPT ![p].deleted = TRUE]
  /\ postsCount' = AddTo(postsCount, a, -1)

\* PostService.DeletePost, up to the check of the author.
DeletePost(w) ==
  \E u \in Accounts, p \in DOMAIN postRows \cup {MissingPost} :
    LET c == Call("deletePost", u, p, 0) IN
    /\ CanStart(w)
    /\ calls' = calls + 1
    /\ UNCHANGED <<followStore, likeStore, rateStore>>
    /\ IF ~PostGetByID(p) THEN Return(w, c, "NotFoundError")
       ELSE IF postRows[p].author # u THEN Return(w, c, "ForbiddenError")
       ELSE Goto(w, c, "deletePostTx")

\* PostRepository.Delete: the First of the transaction reads the author.
DeletePostSelect(w) ==
  /\ pc[w] = "deletePostTx"
  /\ UNCHANGED <<followStore, likeStore, rateStore, calls>>
  /\ IF ~PostFirst(call[w].x) THEN Return(w, call[w], "StorageError")
     ELSE /\ loc' = [loc EXCEPT ![w].n = postRows[call[w].x].author]
          /\ pc' = [pc EXCEPT ![w] = "deletePostCommit"]
          /\ UNCHANGED <<call, last>>

\* PostRepository.Delete: the soft delete, which waits for the lock of the
\* row, the UPDATE of posts_count and the COMMIT.
DeletePostCommit(w) ==
  /\ pc[w] = "deletePostCommit"
  /\ DeletePostTx(call[w].x, loc[w].n)
  /\ Return(w, call[w], "ok")
  /\ UNCHANGED <<isActive, followersCount, followingCount, follows>>
  /\ UNCHANGED <<itinerariesCount, postActive, likesCount, likes, rateStore>>
  /\ UNCHANGED calls

\* ItineraryRepository.Create: INSERT of the itinerary and
\* itineraries_count + 1 of its author, in one transaction.
CreateItineraryTx(u, id, pub) ==
  /\ itineraryRows' =
       (id :> ItineraryRow(u, pub, FALSE, Now, 0, 0, 0, 0, "c", "c", "c"))
         @@ itineraryRows
  /\ itinerariesCount' = AddTo(itinerariesCount, u, 1)

\* ItineraryService.CreateItinerary without days: the request is valid; the
\* repository transaction.
CreateItinerary(w) ==
  \E u \in Accounts, pub \in BOOLEAN :
    LET c == Call("createItinerary", u,
                  NextID(itineraryRows, MissingItinerary), 0)
    IN
    /\ CanStart(w)
    /\ calls' = calls + 1
    /\ CreateItineraryTx(u, c.x, pub)
    /\ Goto(w, c, "createdItinerary")
    /\ UNCHANGED <<isActive, followersCount, followingCount, follows>>
    /\ UNCHANGED <<postsCount, likeStore, isPublic, ratingsCount>>
    /\ UNCHANGED <<averageRating, ratings>>

\* ItineraryService.CreateItinerary: the GetByID of the itinerary it created.
CreateItineraryRead(w) ==
  /\ pc[w] = "createdItinerary"
  /\ UNCHANGED <<followStore, likeStore, rateStore, calls>>
  /\ Return(w, call[w],
            IF ItineraryGetByID(call[w].x) THEN "ok" ELSE "StorageError")

\* First(&itinerary, id) in the transaction of Delete.
ItineraryFirst(i) == i \in DOMAIN itineraryRows /\ ~itineraryRows[i].deleted

\* ItineraryRepository.Delete after its First: the soft delete (no row is
\* no error), itineraries_count - 1 of the author it read, COMMIT.
DeleteItineraryTx(i, a) ==
  /\ itineraryRows' = [itineraryRows EXCEPT ![i].deleted = TRUE]
  /\ itinerariesCount' = AddTo(itinerariesCount, a, -1)

\* ItineraryService.DeleteItinerary, up to the check of the author.
DeleteItinerary(w) ==
  \E u \in Accounts, i \in DOMAIN itineraryRows \cup {MissingItinerary} :
    LET c == Call("deleteItinerary", u, i, 0) IN
    /\ CanStart(w)
    /\ calls' = calls + 1
    /\ UNCHANGED <<followStore, likeStore, rateStore>>
    /\ IF ~ItineraryGetByID(i) THEN Return(w, c, "NotFoundError")
       ELSE IF itineraryRows[i].author # u THEN Return(w, c, "ForbiddenError")
       ELSE Goto(w, c, "deleteItineraryTx")

\* ItineraryRepository.Delete: the First of the transaction reads the author.
DeleteItinerarySelect(w) ==
  /\ pc[w] = "deleteItineraryTx"
  /\ UNCHANGED <<followStore, likeStore, rateStore, calls>>
  /\ IF ~ItineraryFirst(call[w].x) THEN Return(w, call[w], "StorageError")
     ELSE /\ loc' = [loc EXCEPT ![w].n = itineraryRows[call[w].x].author]
          /\ pc' = [pc EXCEPT ![w] = "deleteItineraryCommit"]
          /\ UNCHANGED <<call, last>>

\* ItineraryRepository.Delete: the soft delete, which waits for the lock of
\* the row, the UPDATE of itineraries_count and the COMMIT.
DeleteItineraryCommit(w) ==
  /\ pc[w] = "deleteItineraryCommit"
  /\ DeleteItineraryTx(call[w].x, loc[w].n)
  /\ Return(w, call[w], "ok")
  /\ UNCHANGED <<isActive, followersCount, followingCount, follows>>
  /\ UNCHANGED <<postsCount, likeStore, isPublic, ratingsCount>>
  /\ UNCHANGED <<averageRating, ratings, calls>>

\* PostRepository.Update: db.Save(post) writes every column of the struct
\* to the row with its id, under the soft-delete scope.
PostUpdate(p, row) ==
  IF PostFirst(p)
  THEN /\ postRows' = [postRows EXCEPT ![p] = row]
       /\ likesCount' = IF p \in Posts
                        THEN [likesCount EXCEPT ![p] = row.likesCount]
                        ELSE likesCount
  ELSE UNCHANGED <<postRows, likesCount>>

\* PostService.UpdatePost, up to the call of Update: the post is loaded,
\* the author checked, the fields of the request validated and set on the
\* loaded struct.
UpdatePost(w) ==
  \E u \in Accounts, p \in DOMAIN postRows \cup {MissingPost},
     valid \in BOOLEAN :
    LET c == Call("updatePost", u, p, IF valid THEN 1 ELSE 0) IN
    /\ CanStart(w)
    /\ calls' = calls + 1
    /\ UNCHANGED <<followStore, likeStore, rateStore>>
    /\ IF ~PostGetByID(p) THEN Return(w, c, "NotFoundError")
       ELSE IF postRows[p].author # u THEN Return(w, c, "ForbiddenError")
       ELSE IF ~valid THEN Return(w, c, "ValidationError")
       ELSE /\ pc' = [pc EXCEPT ![w] = "savePost"]
            /\ call' = [call EXCEPT ![w] = c]
            /\ loc' = [loc EXCEPT ![w].row = postRows[p]]
            /\ UNCHANGED last

\* UpdatePost: postRepo.Update of the loaded struct, and the GetByID of the
\* post that follows it.
SavePost(w) ==
  /\ pc[w] = "savePost"
  /\ PostUpdate(call[w].x, loc[w].row)
  /\ Return(w, call[w], IF PostGetByID(call[w].x) THEN "ok" ELSE "StorageError")
  /\ UNCHANGED <<followStore, postActive, likes, rateStore, calls>>

\* ItineraryRepository.Update: db.Save(itinerary) writes every column of
\* the struct to the row with its id, under the soft-delete scope.
ItineraryUpdate(i, row) ==
  IF ItineraryFirst(i)
  THEN /\ itineraryRows' = [itineraryRows EXCEPT ![i] = row]
       /\ IF i \in Itineraries
          THEN /\ isPublic' = [isPublic EXCEPT ![i] = row.isPublic]
               /\ ratingsCount' = [ratingsCount EXCEPT ![i] = row.ratingsCount]
               /\ averageRating' =
                    [averageRating EXCEPT ![i] = row.averageRating]
          ELSE UNCHANGED <<isPublic, ratingsCount, averageRating>>
  ELSE UNCHANGED <<itineraryRows, isPublic, ratingsCount, averageRating>>

\* ItineraryService.UpdateItinerary, up to the call of Update: the
\* itinerary is loaded, the author checked, the fields of the request
\* validated and set on the loaded struct, is_public among them.
UpdateItinerary(w) ==
  \E u \in Accounts, i \in DOMAIN itineraryRows \cup {MissingItinerary},
     valid \in BOOLEAN, pub \in BOOLEAN :
    LET c == Call("updateItinerary", u, i, IF valid THEN 1 ELSE 0) IN
    /\ CanStart(w)
    /\ calls' = calls + 1
    /\ UNCHANGED <<followStore, likeStore, rateStore>>
    /\ IF ~ItineraryGetByID(i) THEN Return(w, c, "NotFoundError")
       ELSE IF itineraryRows[i].author # u THEN Return(w, c, "ForbiddenError")
       ELSE IF ~valid THEN Return(w, c, "ValidationError")
       ELSE /\ pc' = [pc EXCEPT ![w] = "saveItinerary"]
            /\ call' = [call EXCEPT ![w] = c]
            /\ loc' = [loc EXCEPT
                         ![w].row = [itineraryRows[i] EXCEPT !.isPublic = pub]]
            /\ UNCHANGED last

\* UpdateItinerary: itineraryRepo.Update of the loaded struct, and the
\* GetByID of the itinerary that follows it.
SaveItinerary(w) ==
  /\ pc[w] = "saveItinerary"
  /\ ItineraryUpdate(call[w].x, loc[w].row)
  /\ Return(w, call[w],
            IF ItineraryGetByID(call[w].x) THEN "ok" ELSE "StorageError")
  /\ UNCHANGED <<followStore, likeStore, ratings, calls>>

\* A statement of the Delete transaction returns an error: rollback.
DeleteTxError(w) ==
  /\ pc[w] \in {"deletePostTx", "deletePostCommit", "deleteItineraryTx",
                "deleteItineraryCommit"}
  /\ Return(w, call[w], "StorageError")
  /\ UNCHANGED <<followStore, likeStore, rateStore, calls>>

\* GetByAuthor: WHERE author_id = ? AND is_active = true
AuthorCandidates(a) ==
  {p \in DOMAIN postRows : postRows[p].author = a /\ PostVisible(p)}

\* PostService.GetPostsByAuthor: the limit is normalised, then one SELECT
\* ordered by created_at DESC with LIMIT and OFFSET.
GetPostsByAuthor(w) ==
  \E a \in Accounts, limit \in LimitInputs, offset \in OffsetInputs :
    \E ord \in Orderings(AuthorCandidates(a), NewerPost) :
      Reads(w, Listing(Call("getPostsByAuthor", a, limit, offset),
                       Page(ord, PageLimit(limit), offset)))

\* PostService.GetPostByID
GetPostByID(w) ==
  \E v \in Accounts, p \in DOMAIN postRows \cup {MissingPost} :
    Reads(w, Outcome(Call("getPostByID", v, p, 0),
                     IF PostGetByID(p) THEN "ok" ELSE "NotFoundError"))

\* ItineraryService.GetItineraryByID, up to the decision to count a view: a
\* private itinerary is not found by anyone but its author.
GetItineraryByID(w) ==
  \E v \in Accounts, i \in DOMAIN itineraryRows \cup {MissingItinerary} :
    LET c == Call("getItineraryByID", v, i, 0) IN
    /\ CanStart(w)
    /\ calls' = calls + 1
    /\ UNCHANGED <<followStore, likeStore, rateStore>>
    /\ IF ~ItineraryGetByID(i) THEN Return(w, c, "NotFoundError")
       ELSE IF ~itineraryRows[i].isPublic /\ itineraryRows[i].author # v
            THEN Return(w, c, "NotFoundError")
       ELSE IF itineraryRows[i].author # v THEN Goto(w, c, "incrementViews")
       ELSE Return(w, c, "ok")

\* Variant of IncrementViewsRows that sets the counter to 1.
IncrementViewsRows_Reset(i) ==
  IF ItineraryFirst(i) THEN [itineraryRows EXCEPT ![i].viewsCount = 1]
  ELSE itineraryRows

\* ItineraryRepository.IncrementViews: UPDATE itineraries SET views_count =
\* views_count + 1 WHERE id = ? (AND deleted_at IS NULL)
IncrementViewsRows(i) ==
  IF ItineraryFirst(i) THEN [itineraryRows EXCEPT ![i].viewsCount = @ + 1]
  ELSE itineraryRows

\* ItineraryService.GetItineraryByID: the view is counted and the itinerary
\* read before is returned.
IncrementViews(w) ==
  /\ pc[w] = "incrementViews"
  /\ itineraryRows' = IncrementViewsRows(call[w].x)
  /\ Return(w, call[w], "ok")
  /\ UNCHANGED <<followStore, likeStore, isPublic, ratingsCount>>
  /\ UNCHANGED <<averageRating, ratings, calls>>

\* The tables with their rows spelled out: the posts and itineraries that
\* exist, created a day ago by the accounts in turn, nothing liked or rated.
InitContent ==
  /\ InitStore
  /\ isPublic \in [Itineraries -> BOOLEAN]
  /\ postRows = [p \in Posts |-> PostRow(AuthorOf(p), Now - 1, TRUE, FALSE, 0, 0)]
  /\ itineraryRows =
       [i \in Itineraries |->
          ItineraryRow(AuthorOf(i), isPublic[i], FALSE, Now - 1, 0, 0, 0, 0,
                       "c", "c", "c")]

DeletePostStep(w) ==
  \/ DeletePost(w)
  \/ DeletePostSelect(w)
  \/ DeletePostCommit(w)

PostContentStep(w) ==
  \/ CreatePost(w)
  \/ CreatePostRead(w)
  \/ DeletePostStep(w)

DeleteItineraryStep(w) ==
  \/ DeleteItinerary(w)
  \/ DeleteItinerarySelect(w)
  \/ DeleteItineraryCommit(w)

ItineraryContentStep(w) ==
  \/ CreateItinerary(w)
  \/ CreateItineraryRead(w)
  \/ DeleteItineraryStep(w)

\* Creations and deletions of parallel workers, of posts or of itineraries.
ContentNext ==
  \E w \in Workers :
    \/ Called \subseteq {"posts"} /\ PostContentStep(w)
    \/ Called \subseteq {"itineraries"} /\ ItineraryContentStep(w)
    \/ DeleteTxError(w)

SpecContent == InitContent /\ [][ContentNext]_vars

\* The service whose table a read scans.
ReadOf(op) ==
  CASE op \in {"getFeed", "getPostsByAuthor", "getTrendingPosts",
               "getPostByID"} -> "posts"
    [] op \in {"getTrending", "getSimilar"} -> "itineraries"
    [] OTHER -> "none"

\* The services called or read so far.
Visited == (Called \cup {ReadOf(last.op)}) \ {"none"}

\* The id of a second post and of a second itinerary.
OtherID == MissingPost + 1

\* Two posts and two itineraries, public as pub says, the second ones
\* created today; nothing liked or rated, nobody followed.
TwoOfEach(pub) ==
  /\ InitIdle
  /\ postActive = [p \in Posts |-> TRUE]
  /\ likesCount = [p \in Posts |-> 0]
  /\ likes = [p \in Accounts \X AnyPost |-> 0]
  /\ isPublic = [i \in Itineraries |-> pub[i]]
  /\ ratingsCount = [i \in Itineraries |-> 0]
  /\ averageRating = [i \in Itineraries |-> <<0, 1>>]
  /\ ratings = [p \in Accounts \X AnyItinerary |-> <<>>]
  /\ isActive = [a \in Accounts |-> TRUE]
  /\ followersCount = [a \in Accounts |-> 0]
  /\ followingCount = [a \in Accounts |-> 0]
  /\ follows = [p \in Pairs |-> 0]
  /\ postRows =
       [p \in Posts \cup {OtherID} |->
          PostRow(AuthorOf(p), IF p \in Posts THEN Now - 1 ELSE Now, TRUE,
                  FALSE, 0, 0)]
  /\ itineraryRows =
       [i \in Itineraries \cup {OtherID} |->
          ItineraryRow(AuthorOf(i), pub[i], FALSE,
                       IF i \in Itineraries THEN Now - 1 ELSE Now, 0, 0, 0, 0,
                       "c", "c", "c")]
  /\ postsCount =
       [a \in Accounts |->
          Cardinality({p \in DOMAIN postRows : postRows[p].author = a})]
  /\ itinerariesCount =
       [a \in Accounts |->
          Cardinality({i \in DOMAIN itineraryRows :
                         itineraryRows[i].author = a})]

\* Every itinerary is public.
InitTombstone == TwoOfEach([i \in Itineraries \cup {OtherID} |-> TRUE])

\* Each itinerary is public or private.
InitViews ==
  \E pub \in [Itineraries \cup {OtherID} -> BOOLEAN] : TwoOfEach(pub)

\* RateItinerary alone, of the rating calls.
RateOnlyStep(w) ==
  \/ RateItinerary(w)
  \/ RateCheck(w)
  \/ RateInsert(w)
  \/ StatsAvg(w)
  \/ StatsCommit(w)
  \/ RatingTxError(w)

\* Calls one at a time on the posts or on the itineraries: deletions, likes
\* and ratings, and every read of the table.
TombstoneNext ==
  \E w \in Workers :
    /\ Alone(w)
    /\ \/ /\ Visited \subseteq {"posts"}
          /\ \/ DeletePostStep(w)
             \/ LikeStep(w)
             \/ GetFeed(w)
             \/ GetPostsByAuthor(w)
             \/ GetTrendingPosts(w)
             \/ GetPostByID(w)
       \/ /\ Visited \subseteq {"itineraries"}
          /\ \/ DeleteItineraryStep(w)
             \/ RateOnlyStep(w)
             \/ GetTrending(w)
             \/ GetSimilar(w)
             \/ GetItineraryByID(w)
             \/ IncrementViews(w)
       \/ DeleteTxError(w)

SpecTombstone == InitTombstone /\ [][TombstoneNext]_vars

\* Edits of posts with likes and unlikes, or edits of itineraries with
\* rating calls and counted views, of parallel workers.
EditNext ==
  \E w \in Workers :
    \/ /\ Called \subseteq {"posts"}
       /\ (LikeStep(w) \/ UpdatePost(w) \/ SavePost(w))
    \/ /\ Called \subseteq {"itineraries"}
       /\ \/ RateStep(w)
          \/ GetItineraryByID(w)
          \/ IncrementViews(w)
          \/ UpdateItinerary(w)
          \/ SaveItinerary(w)

SpecEdit == InitContent /\ [][EditNext]_vars

\* Variant of CountPosts without deleted_at IS NULL.
CountPosts_WithDeleted(u) ==
  Cardinality({p \in DOMAIN postRows : postRows[p].author = u})

\* UpdateCounts: COUNT of posts WHERE author_id = ? AND deleted_at IS NULL
CountPosts(u) ==
  Cardinality({p \in DOMAIN postRows :
                 postRows[p].author = u /\ ~postRows[p].deleted})

\* UpdateCounts: COUNT of itineraries WHERE author_id = ? AND deleted_at IS
\* NULL
CountItineraries(u) ==
  Cardinality({i \in DOMAIN itineraryRows :
                 itineraryRows[i].author = u /\ ~itineraryRows[i].deleted})

\* UpdateCounts: COUNT of follows WHERE followed_id = ?
CountFollowers(u) == SumOver({p \in Pairs : p[2] = u}, follows)

\* UpdateCounts: COUNT of follows WHERE follower_id = ?
CountFollowing(u) == SumOver({p \in Pairs : p[1] = u}, follows)

\* UPDATE users SET c = n WHERE id = ?  (no row, no effect)
SetTo(counter, id, n) ==
  IF id \in Accounts THEN [counter EXCEPT ![id] = n] ELSE counter

\* UserRepository.UpdateCounts: the four COUNTs and the UPDATE of the users
\* row in one transaction, with no other call running.
UpdateCounts(w) ==
  \E u \in AnyID :
    /\ CanStart(w)
    /\ Alone(w)
    /\ calls' = calls + 1
    /\ postsCount' = SetTo(postsCount, u, CountPosts(u))
    /\ itinerariesCount' = SetTo(itinerariesCount, u, CountItineraries(u))
    /\ followersCount' = SetTo(followersCount, u, CountFollowers(u))
    /\ followingCount' = SetTo(followingCount, u, CountFollowing(u))
    /\ last' = Outcome(Call("updateCounts", u, 0, 0), "ok")
    /\ UNCHANGED <<isActive, follows, likeStore, rateStore, pc, call, loc>>

\* How far a counter may have drifted from the rows it counts.
Drifts == {-1, 0, 1}

\* The state a recount runs in: one account follows any set of others, the
\* two posts and the two itineraries are deleted or not, and each of the
\* four counters is off by the same drift for every account.
InitCounts ==
  /\ InitIdle
  /\ InitEngagement
  /\ isActive = [a \in Accounts |-> TRUE]
  /\ \E f \in Accounts : \E followed \in SUBSET (Accounts \ {f}) :
       follows = [p \in Pairs |->
                    IF p[1] = f /\ p[2] \in followed THEN 1 ELSE 0]
  /\ \E del \in [Posts \cup {OtherID} -> BOOLEAN] :
       postRows = [p \in Posts \cup {OtherID} |->
                     PostRow(AuthorOf(p), Now - 1, TRUE, del[p], 0, 0)]
  /\ \E del \in [Itineraries \cup {OtherID} -> BOOLEAN] :
       itineraryRows =
         [i \in Itineraries \cup {OtherID} |->
            ItineraryRow(AuthorOf(i), TRUE, del[i], Now - 1, 0, 0, 0, 0,
                         "c", "c", "c")]
  /\ \E k \in [1..4 -> Drifts] :
       /\ postsCount = [a \in Accounts |-> CountPosts(a) + k[1]]
       /\ itinerariesCount = [a \in Accounts |-> CountItineraries(a) + k[2]]
       /\ followersCount = [a \in Accounts |-> CountFollowers(a) + k[3]]
       /\ followingCount = [a \in Accounts |-> CountFollowing(a) + k[4]]

CountsNext == \E w \in Workers : UpdateCounts(w)

\* Recounts, one at a time, of a state whose counters have drifted.
SpecCounts == InitCounts /\ [][CountsNext]_vars

ViewsNext == \E w \in Workers : GetItineraryByID(w) \/ IncrementViews(w)

\* Lookups of an itinerary by its author and by others, of parallel workers.
SpecViews == InitViews /\ [][ViewsNext]_vars

ProfileStep(w) ==
  \/ UpdateProfile(w)
  \/ ChangePassword(w)
  \/ SaveUser(w)

ProfileNext == \E w \in Workers : FollowStep(w) \/ ProfileStep(w)

\* Profile and password updates of parallel workers, with follow / unfollow
\* calls.
SpecProfile == Init /\ [][ProfileNext]_vars

(***************************************************************************)
(* Properties of the social graph service                                  *)
(***************************************************************************)

\* Calls that have returned; a step returns a call iff it raises this by 1.
Returned == calls - Cardinality({w \in Workers : pc[w] # "idle"})

FollowersOf(x) == SumOver({p \in Pairs : p[2] = x}, follows)

FollowingOf(x) == SumOver({p \in Pairs : p[1] = x}, follows)

\* Worker w is inside the transaction of a Follow or an Unfollow.
InFollowTx(w) == pc[w] \in {"followTx", "unfollowTx", "unfollowCommit"}

\* The account x has a row and is active.
ActiveAccount(x) == x \in Accounts /\ isActive[x]

\* C1: whenever no follow transaction is in progress, followers_count(X) is
\* the number of follows rows with followed_id = X and following_count(X) the
\* number of rows with follower_id = X, for every account X, under every
\* interleaving of Follow and Unfollow calls of parallel workers.
C1_FollowCountersMatchEdges ==
  (\A w \in Workers : ~InFollowTx(w)) =>
    \A x \in Accounts :
      /\ followersCount[x] = FollowersOf(x)
      /\ followingCount[x] = FollowingOf(x)

\* C4: with no edge (A,B), a successful Follow(A,B) adds the one row (A,B),
\* raises followers_count(B) and following_count(A) by exactly 1 and changes
\* nothing else; a successful Unfollow(A,B) that follows it lowers the same
\* two counters by exactly 1, back to their values before the Follow, leaves
\* no row (A,B) and changes nothing else.  Calls run one at a time.
C4_FollowThenUnfollowRestores ==
  [][\A w \in Workers :
       LET a == call[w].u
           b == call[w].x
       IN
       /\ (/\ pc[w] = "followTx"
           /\ Returned' = Returned + 1
           /\ last'.res = "ok"
           /\ ~IsFollowing(a, b))
          => /\ follows' = [follows EXCEPT ![<<a, b>>] = 1]
             /\ followersCount' = [followersCount EXCEPT ![b] = @ + 1]
             /\ followingCount' = [followingCount EXCEPT ![a] = @ + 1]
             /\ isActive' = isActive
       /\ (/\ pc[w] = "unfollowCommit"
           /\ Returned' = Returned + 1
           /\ last'.res = "ok"
           /\ last = Outcome(Call("follow", a, b, 0), "ok"))
          => /\ follows' = [follows EXCEPT ![<<a, b>>] = 0]
             /\ followersCount' = [followersCount EXCEPT ![b] = @ - 1]
             /\ followingCount' = [followingCount EXCEPT ![a] = @ - 1]
             /\ isActive' = isActive
    ]_vars

\* C4 witness: Unfollow(A,B) has just succeeded right after Follow(A,B), and
\* the counters are back at their initial values with no row left.
C4_Witness ==
  /\ last.op = "unfollow" /\ last.res = "ok"
  /\ calls = 2
  /\ follows[<<last.u, last.x>>] = 0
  /\ followersCount[last.x] = 0
  /\ followingCount[last.u] = 0

\* C6: Follow(A,A) fails with SelfReferenceError for every id A, registered
\* or not, active or not; it never gets past the first check, creates no
\* follows row and changes no counter.
C6_SelfFollowRejected ==
  [][/\ \A w \in Workers :
          call'[w].op = "follow" => call'[w].u # call'[w].x
     /\ (/\ Returned' = Returned + 1
         /\ last'.op = "follow"
         /\ last'.u = last'.x)
        => /\ last'.res = "SelfReferenceError"
           /\ UNCHANGED followStore
    ]_vars

\* C6 witness: a deactivated account has just tried to follow itself.
C6_Witness ==
  /\ last.op = "follow" /\ last.u = last.x
  /\ last.res = "SelfReferenceError"
  /\ last.u \in Accounts /\ ~isActive[last.u]

C8_FollowNotFoundOrExists ==
  [][/\ \A w \in Workers :
          /\ (pc[w] = "idle" /\ pc'[w] = "isFollowing")
             => ActiveAccount(call'[w].x)
          /\ (pc[w] = "isFollowing" /\ pc'[w] # "isFollowing"
              /\ IsFollowing(call[w].u, call[w].x))
             => /\ pc'[w] = "idle"
                /\ last' = Outcome(call[w], "AlreadyExistsError")
                /\ UNCHANGED followStore
     /\ (/\ Returned' = Returned + 1
         /\ calls' = calls + 1
         /\ last'.op = "follow"
         /\ last'.u # last'.x
         /\ ~ActiveAccount(last'.x))
        => /\ last'.res = "NotFoundError"
           /\ UNCHANGED followStore
    ]_vars

\* C8 witness: Follow(A,B) has just failed with NotFoundError for a
\* deactivated B although the row (A,B) exists: the lookup comes first.
C8_Witness ==
  /\ last.op = "follow" /\ last.u # last.x
  /\ last.res = "NotFoundError"
  /\ last.x \in Accounts /\ ~isActive[last.x]
  /\ follows[<<last.u, last.x>>] > 0

(***************************************************************************)
(* Properties of the like service                                          *)
(***************************************************************************)

LikesOf(p) == SumOver({q \in Accounts \X AnyPost : q[2] = p}, likes)

\* Worker w is inside the transaction of a Like or an Unlike.
InLikeTx(w) == pc[w] \in {"likeTx", "likeInsert", "unlikeTx", "unlikeCommit"}

\* C3: whenever no like transaction is in progress, likes_count(P) is the
\* number of post_likes rows of post P, for every post P, under every
\* interleaving of Like and Unlike calls of parallel workers.
C3_LikesCountMatchesEdges ==
  (\A w \in Workers : ~InLikeTx(w)) =>
    \A p \in Posts : likesCount[p] = LikesOf(p)

\* C5: for a post P and a user U without a row (U,P), a successful Like(U,P)
\* adds the one row and raises likes_count(P) by 1, and the successful
\* Unlike(U,P) that follows it lowers likes_count(P) by 1, back to its value
\* before the Like, and leaves no row (U,P); an Unlike(U,P) of an existing
\* post that finds no row (U,P) fails with NotLikedError and changes neither
\* likes_count nor the rows.  Calls run one at a time.
C5_LikeThenUnlikeRestores ==
  [][\A w \in Workers :
       LET u == call[w].u
           p == call[w].x
       IN
       /\ (/\ pc[w] = "likeInsert"
           /\ Returned' = Returned + 1
           /\ last'.res = "ok")
          => /\ likes[<<u, p>>] = 0
             /\ likes' = [likes EXCEPT ![<<u, p>>] = 1]
             /\ likesCount' = [likesCount EXCEPT ![p] = @ + 1]
       /\ (/\ pc[w] = "unlikeCommit"
           /\ Returned' = Returned + 1
           /\ last'.res = "ok"
           /\ last = Outcome(Call("like", u, p, 0), "ok"))
          => /\ likes' = [likes EXCEPT ![<<u, p>>] = 0]
             /\ likesCount' = [likesCount EXCEPT ![p] = @ - 1]
       /\ (/\ call[w].op = "unlike"
           /\ Returned' = Returned + 1
           /\ pc'[w] = "idle"
           /\ likes[<<u, p>>] = 0)
          => /\ last' = Outcome(call[w], "NotLikedError")
             /\ UNCHANGED likeStore
    ]_vars

\* C5 witness: Unlike(U,P) has just succeeded right after Like(U,P): no row
\* is left and likes_count(P) is back at its initial value.
C5_Witness ==
  /\ last.op = "unlike" /\ last.res = "ok"
  /\ calls = 2
  /\ likes[<<last.u, last.x>>] = 0
  /\ likesCount[last.x] = 0

(***************************************************************************)
(* Properties of the rating service                                        *)
(***************************************************************************)

\* |R|: the itinerary_ratings rows of itinerary i.
RatingsOf(i) == SumOver(Accounts, [u \in Accounts |-> Len(ratings[<<u, i>>])])

\* The total of the scores of the rows of itinerary i.
ScoresOf(i) == SumOver(Accounts, [u \in Accounts |-> SeqSum(ratings[<<u, i>>])])

\* ratings_count and average_rating of i are those of its rows.
StatsMatchRatings(i) ==
  /\ ratingsCount[i] = RatingsOf(i)
  /\ averageRating[i] = Mean(ScoresOf(i), RatingsOf(i))

\* C2: once every Rate, UpdateRating and DeleteRating call has completed,
\* calls of different users that ran in parallel on the same itinerary
\* included, ratings_count(I) is the number of rating rows of I and
\* average_rating(I) their arithmetic mean (0 when there is none).  Only
\* states in which no user has two rating rows of one itinerary are looked at.
C2_RatingStatsMatchRatings ==
  (/\ \A w \in Workers : pc[w] = "idle"
   /\ \A u \in Accounts, i \in Itineraries : Len(ratings[<<u, i>>]) <= 1)
  => \A i \in Itineraries : StatsMatchRatings(i)

\* C9: Rate(U,I,score) fails with NotFoundError if I has no row, otherwise
\* with ForbiddenError if I is private, otherwise with InvalidRangeError if
\* score is outside 1..5, and only otherwise reaches the lookup of the
\* rating (U,I), where it fails with AlreadyRatedError if a row exists;
\* every failing Rate leaves the rating rows, ratings_count and
\* average_rating as they were.
C9_RateErrorOrder ==
  [][/\ \A w \in Workers :
          /\ (pc[w] = "idle" /\ pc'[w] = "getUserRating")
             => /\ call'[w].x \in Itineraries
                /\ isPublic[call'[w].x]
                /\ call'[w].score \in 1..5
          /\ (pc[w] = "getUserRating" /\ pc'[w] # "getUserRating"
              /\ ratings[<<call[w].u, call[w].x>>] # <<>>)
             => /\ pc'[w] = "idle"
                /\ last' = Outcome(call[w], "AlreadyRatedError")
     /\ (/\ Returned' = Returned + 1
         /\ calls' = calls + 1
         /\ last'.op = "rate")
        => last'.res =
             IF last'.x \notin Itineraries THEN "NotFoundError"
             ELSE IF ~isPublic[last'.x] THEN "ForbiddenError"
             ELSE "InvalidRangeError"
     /\ (/\ Returned' = Returned + 1
         /\ last'.op = "rate"
         /\ last'.res # "ok")
        => UNCHANGED rateStore
    ]_vars

\* C9 witness: a second, valid Rate of a public itinerary by the same user
\* has just failed with AlreadyRatedError and the one row is still the only
\* one.
C9_Witness ==
  /\ last.op = "rate" /\ last.res = "AlreadyRatedError"
  /\ last.score \in 1..5
  /\ Len(ratings[<<last.u, last.x>>]) = 1
  /\ ratingsCount[last.x] = 1
  /\ \A w \in Workers : pc[w] = "idle"

\* C10: UpdateRating(U,I,score) and DeleteRating(U,I) fail with
\* NotRatedError when no rating row (U,I) exists and then change neither the
\* rating rows nor ratings_count nor average_rating; when they succeed, the
\* step that commits the update or the delete of the rows of (U,I) also
\* writes ratings_count(I) and average_rating(I), and these are the number
\* and the mean of all the rating rows of I.  Calls run one at a time.
C10_UpdateDeleteRecompute ==
  [][/\ (/\ Returned' = Returned + 1
         /\ calls' = calls + 1
         /\ last'.op \in {"updateRating", "deleteRating"}
         /\ ratings[<<last'.u, last'.x>>] = <<>>)
        => /\ last'.res = "NotRatedError"
           /\ UNCHANGED rateStore
     /\ \A w \in Workers :
          LET u == call[w].u
              i == call[w].x
          IN
          (/\ call[w].op \in {"updateRating", "deleteRating"}
           /\ Returned' = Returned + 1
           /\ pc'[w] = "idle")
          => IF last'.res = "ok"
             THEN /\ ratings[<<u, i>>] # <<>>
                  /\ ratings' =
                       [ratings EXCEPT ![<<u, i>>] =
                          IF call[w].op = "deleteRating" THEN <<>>
                          ELSE [j \in 1..Len(@) |-> call[w].score]]
                  /\ \A j \in Itineraries : j = i => StatsMatchRatings(j)'
             ELSE UNCHANGED rateStore
    ]_vars

\* C10 witness: an UpdateRating has just succeeded on an itinerary with two
\* ratings, and the mean written is 7/2 (scores 2 and 5, or 5 and 2).
C10_Witness ==
  /\ last.op = "updateRating" /\ last.res = "ok"
  /\ last.score = 5
  /\ ratingsCount[last.x] = 2
  /\ averageRating[last.x] = <<7, 2>>

(***************************************************************************)
(* Uniqueness of edges and ratings                                         *)
(***************************************************************************)

\* C11: a Like(U,P) call returns success only if that very call inserted the
\* row (U,P), the only one, and raised likes_count(P) by 1; so of several
\* parallel Like(U,P) calls on an active post at most one succeeds.
C11_LikeSucceedsOnlyByInserting ==
  [][\A w \in Workers :
       LET u == call[w].u
           p == call[w].x
       IN
       (/\ call[w].op = "like"
        /\ Returned' = Returned + 1
        /\ pc'[w] = "idle"
        /\ last'.res = "ok")
       => /\ likes[<<u, p>>] = 0
          /\ likes' = [likes EXCEPT ![<<u, p>>] = 1]
          /\ likesCount' = [likesCount EXCEPT ![p] = @ + 1]
    ]_vars

\* C12: there is at most one follows row per ordered pair (follower,
\* followed) and none with follower = followed, in every reachable state.
C12_FollowEdgeUnique ==
  \A p \in Pairs :
    /\ follows[p] <= 1
    /\ p[1] = p[2] => follows[p] = 0

\* C13: there is at most one rating row per pair (user, itinerary) and every
\* stored score is in 1..5, in every reachable state.
C13_RatingUnique ==
  \A q \in Accounts \X AnyItinerary :
    /\ Len(ratings[q]) <= 1
    /\ \A j \in 1..Len(ratings[q]) : ratings[q][j] \in 1..5

(***************************************************************************)
(* The rating scenario                                                     *)
(***************************************************************************)

\* The rating rows of itinerary i are exactly those of r (user -> scores).
RatingRowsAre(i, r) == \A u \in Accounts : ratings[<<u, i>>] = r[u]

\* ratings_count and average_rating of i are k and the whole number m.
StatsAre(i, k, m) == ratingsCount[i] = k /\ averageRating[i] = <<m, 1>>

\* The step commits the call o of worker w with score s.
Commits(w, o, s) ==
  /\ pc[w] = "statsCommit"
  /\ call[w].op = o
  /\ call[w].score = s
  /\ Returned' = Returned + 1
  /\ last'.res = "ok"

\* C15: on a public itinerary I without ratings and with stats (0, 0), once
\* U has rated 4 the stats are (average 4, count 1); once W has then rated 2
\* they are (3, 2); once U has then deleted their rating they are (2, 1);
\* once W has deleted theirs too they are (0, 0) again.  Calls run one at a
\* time.
C15_RatingScenario ==
  [][\A w \in Workers, i \in Itineraries, U \in Accounts, W \in Accounts :
       LET none == [a \in Accounts |-> <<>>]
           onlyU == [none EXCEPT ![U] = <<4>>]
           both == [onlyU EXCEPT ![W] = <<2>>]
           onlyW == [none EXCEPT ![W] = <<2>>]
       IN
       (U # W /\ call[w].x = i) =>
         /\ (/\ Commits(w, "rate", 4) /\ call[w].u = U
             /\ RatingRowsAre(i, none) /\ StatsAre(i, 0, 0))
            => (RatingRowsAre(i, onlyU) /\ StatsAre(i, 1, 4))'
         /\ (/\ Commits(w, "rate", 2) /\ call[w].u = W
             /\ RatingRowsAre(i, onlyU) /\ StatsAre(i, 1, 4))
            => (RatingRowsAre(i, both) /\ StatsAre(i, 2, 3))'
         /\ (/\ Commits(w, "deleteRating", 0) /\ call[w].u = U
             /\ RatingRowsAre(i, both) /\ StatsAre(i, 2, 3))
            => (RatingRowsAre(i, onlyW) /\ StatsAre(i, 1, 2))'
         /\ (/\ Commits(w, "deleteRating", 0) /\ call[w].u = W
             /\ RatingRowsAre(i, onlyW) /\ StatsAre(i, 1, 2))
            => (RatingRowsAre(i, none) /\ StatsAre(i, 0, 0))'
    ]_vars

\* C15 witness: the third call of the scenario has just succeeded: after two
\* Rates, one of them W's 2, U's DeleteRating leaves (average 2, count 1).
C15_Witness ==
  /\ calls = 3
  /\ last.op = "deleteRating" /\ last.res = "ok"
  /\ \E i \in Itineraries, W \in Accounts \ {last.u} :
       /\ last.x = i
       /\ ratings[<<W, i>>] = <<2>>
       /\ ratings[<<last.u, i>>] = <<>>
       /\ StatsAre(i, 1, 2)

\* ---------------------------------------------------------------------
\* Reads: feed, trending and similar listings.

\* The ids a listing holds.
Listed(page) == {page[i] : i \in DOMAIN page}

\* The limit a listing is cut at: the requested one when it lies in
\* 1..max, the default otherwise.
EffectiveLimit(limit, max, default) ==
  IF limit \in 1..max THEN limit ELSE default

\* page is the n rows after the first k of the set cand laid out so that no
\* row comes before one that NotAfter puts ahead of it: it repeats no row,
\* holds rows of cand only, in order, is as long as what is left after k
\* rows allows, and the k rows skipped are none behind any row kept or left.
IsPageOf(page, cand, n, k, NotAfter(_, _)) ==
  /\ Listed(page) \subseteq cand
  /\ \A i, j \in DOMAIN page : i < j =>
       (page[i] # page[j] /\ NotAfter(page[i], page[j]))
  /\ Len(page) = Min(n, IF Cardinality(cand) > k
                           THEN Cardinality(cand) - k ELSE 0)
  /\ \E skipped \in SUBSET (cand \ Listed(page)) :
       /\ Cardinality(skipped) = Min(k, Cardinality(cand))
       /\ \A b \in skipped : \A x \in cand \ skipped : NotAfter(b, x)
       /\ \A x \in Listed(page) :
            \A y \in cand \ (skipped \cup Listed(page)) : NotAfter(x, y)

\* The posts a feed of viewer v is made of: active, not deleted, written by
\* v or by an account v follows.
FeedPosts(v) ==
  {p \in DOMAIN postRows :
     /\ postRows[p].isActive
     /\ ~postRows[p].deleted
     /\ (postRows[p].author = v \/ follows[<<v, postRows[p].author>>] > 0)}

NotOlderPost(a, b) == postRows[a].createdAt >= postRows[b].createdAt

\* C14: a feed read returns the page, at the requested offset and the
\* limit in force, of exactly the active, non-deleted posts written by the
\* viewer or by an account the viewer follows in the state it reads, newest
\* first; no post of an account the viewer does not follow is in it.
C14_FeedIsPageOfFollowed ==
  last.op = "getFeed" =>
    /\ IsPageOf(last.page, FeedPosts(last.u),
                EffectiveLimit(last.x, MaxPageLimit, DefaultPageLimit),
                last.score, NotOlderPost)
    /\ \A p \in Listed(last.page) :
         postRows[p].author # last.u =>
           follows[<<last.u, postRows[p].author>>] > 0

\* A feed read at offset 1 returned a post of a followed account while
\* an inactive or deleted post of that account stayed out.
C14_Witness ==
  /\ last.op = "getFeed"
  /\ last.score = 1
  /\ \E p \in Listed(last.page) :
       /\ postRows[p].author # last.u
       /\ \E q \in DOMAIN postRows \ Listed(last.page) :
            /\ postRows[q].author = postRows[p].author
            /\ (~postRows[q].isActive \/ postRows[q].deleted)

\* The posts a trending listing is made of: active, not deleted, less than
\* 7 days old.
RecentActivePosts ==
  {p \in DOMAIN postRows :
     /\ postRows[p].isActive
     /\ ~postRows[p].deleted
     /\ Now - postRows[p].createdAt < TrendingPostsDays}

PostRank(p) == postRows[p].likesCount * 2 + postRows[p].commentsCount

NotBelowPost(a, b) ==
  \/ PostRank(a) > PostRank(b)
  \/ PostRank(a) = PostRank(b) /\ postRows[a].createdAt >= postRows[b].createdAt

\* C16: a trending read of posts returns the page, at the requested offset
\* and the limit in force, of exactly the active posts less than 7 days
\* old, by likesCount * 2 + commentsCount descending and, among equal
\* scores, newest first; no inactive post and no older one is in it.
C16_TrendingPostsPage ==
  last.op = "getTrendingPosts" =>
    /\ IsPageOf(last.page, RecentActivePosts,
                EffectiveLimit(last.x, MaxPageLimit, DefaultPageLimit),
                last.score, NotBelowPost)
    /\ \A p \in Listed(last.page) :
         postRows[p].isActive /\ Now - postRows[p].createdAt < TrendingPostsDays

\* A trending read listed two posts of equal score, the newer first, while
\* a post with a higher score, inactive or 7 days old, stayed out.
C16_Witness ==
  /\ last.op = "getTrendingPosts"
  /\ Len(last.page) >= 2
  /\ PostRank(last.page[1]) = PostRank(last.page[2])
  /\ postRows[last.page[1]].createdAt > postRows[last.page[2]].createdAt
  /\ \E q \in DOMAIN postRows \ Listed(last.page) :
       /\ PostRank(q) > PostRank(last.page[1])
       /\ ~postRows[q].deleted
       /\ (~postRows[q].isActive
             \/ Now - postRows[q].createdAt >= TrendingPostsDays)

\* The itineraries a trending listing is made of: public, not deleted, less
\* than 30 days old.
RecentPublicItineraries ==
  {i \in DOMAIN itineraryRows :
     /\ itineraryRows[i].isPublic
     /\ ~itineraryRows[i].deleted
     /\ Now - itineraryRows[i].createdAt < TrendingDays}

\* averageRating of row i on a scale of whole numbers: 60 is a multiple of
\* every denominator up to 6.
RatingKey(i) ==
  (itineraryRows[i].averageRating[1] * 60) \div itineraryRows[i].averageRating[2]

ItineraryRank(i) ==
  <<itineraryRows[i].viewsCount + itineraryRows[i].likesCount * 2
      + itineraryRows[i].ratingsCount * 3,
    RatingKey(i),
    itineraryRows[i].createdAt>>

\* Triple a is not below triple b in the lexicographic order.
NotBelow3(a, b) ==
  \/ a[1] > b[1]
  \/ a[1] = b[1] /\ a[2] > b[2]
  \/ a[1] = b[1] /\ a[2] = b[2] /\ a[3] >= b[3]

NotBelowItinerary(a, b) == NotBelow3(ItineraryRank(a), ItineraryRank(b))

\* C17: a trending read of itineraries returns the page, at the requested
\* offset and the limit in force, of exactly the public itineraries less
\* than 30 days old, by viewsCount + likesCount * 2 + ratingsCount * 3
\* descending, then averageRating descending, then newest first; no private
\* itinerary and no older one is in it.
C17_TrendingItinerariesPage ==
  last.op = "getTrending" =>
    /\ IsPageOf(last.page, RecentPublicItineraries,
                EffectiveLimit(last.x, MaxPageLimit, DefaultPageLimit),
                last.score, NotBelowItinerary)
    /\ \A i \in Listed(last.page) :
         /\ itineraryRows[i].isPublic
         /\ Now - itineraryRows[i].createdAt < TrendingDays

\* A trending read listed two itineraries of equal score, the better rated
\* first although it is older, while a higher-scoring itinerary, private or
\* 30 days old, stayed out.
C17_Witness ==
  /\ last.op = "getTrending"
  /\ Len(last.page) >= 2
  /\ ItineraryRank(last.page[1])[1] = ItineraryRank(last.page[2])[1]
  /\ ItineraryRank(last.page[1])[2] > ItineraryRank(last.page[2])[2]
  /\ ItineraryRank(last.page[1])[3] < ItineraryRank(last.page[2])[3]
  /\ \E q \in DOMAIN itineraryRows \ Listed(last.page) :
       /\ ItineraryRank(q)[1] > ItineraryRank(last.page[1])[1]
       /\ ~itineraryRows[q].deleted
       /\ (~itineraryRows[q].isPublic
             \/ Now - itineraryRows[q].createdAt >= TrendingDays)

\* C18: two trending reads with the same limit and offset, one right after
\* the other on the same tables at the same time, return the same sequence
\* of items.
C18_TrendingDeterministic ==
  [][(/\ last.op \in {"getTrendingPosts", "getTrending"}
      /\ last'.op = last.op
      /\ last'.x = last.x
      /\ last'.score = last.score)
       => last'.page = last.page]_vars

\* The itineraries a similar listing of source src is made of: public, not
\* deleted, other than src, of the category, the city or the country of src.
SimilarTo(src) ==
  {i \in DOMAIN itineraryRows \ {src} :
     /\ itineraryRows[i].isPublic
     /\ ~itineraryRows[i].deleted
     /\ \/ itineraryRows[i].category = itineraryRows[src].category
        \/ itineraryRows[i].city = itineraryRows[src].city
        \/ itineraryRows[i].country = itineraryRows[src].country}

NotBelowSimilar(a, b) ==
  NotBelow3(<<RatingKey(a), itineraryRows[a].viewsCount, 0>>,
            <<RatingKey(b), itineraryRows[b].viewsCount, 0>>)

\* C19: for a source itinerary that exists, a similar listing succeeds and
\* returns at most as many items as the limit in force, the first ones by
\* averageRating descending then viewsCount descending of exactly the
\* public, non-deleted itineraries other than the source that share its
\* category, city or country; the source and private itineraries are never
\* in it.
C19_SimilarListing ==
  last.op = "getSimilar" =>
    LET src == last.x
        n == EffectiveLimit(last.score, MaxSimilarLimit, DefaultSimilarLimit)
    IN (src \in DOMAIN itineraryRows /\ ~itineraryRows[src].deleted) =>
         /\ last.res = "ok"
         /\ Len(last.page) <= n
         /\ IsPageOf(last.page, SimilarTo(src), n, 0, NotBelowSimilar)
         /\ \A i \in Listed(last.page) : i # src /\ itineraryRows[i].isPublic

\* A similar listing cut at limit 1 returned the better rated of two
\* candidates, one that shares the city or the country of the source but
\* not its category.
C19_Witness ==
  /\ last.op = "getSimilar"
  /\ last.res = "ok"
  /\ last.score = 1
  /\ Len(last.page) = 1
  /\ itineraryRows[last.page[1]].category # itineraryRows[last.x].category
  /\ \E q \in SimilarTo(last.x) \ Listed(last.page) :
       RatingKey(q) < RatingKey(last.page[1])

\* ---------------------------------------------------------------------
\* Failure of a write inside a transaction.

\* The tables of the three services.
Tables == <<followStore, likeStore, rateStore>>

\* likes_count of post p is the number of its post_likes rows.
LikesMatchRows(p) ==
  likesCount[p] = SumOver({q \in DOMAIN likes : q[2] = p}, likes)

\* C20: with calls one at a time, the tables change only in the step by
\* which a call returns success, so a call that returns an error, a failed
\* write of its transaction included, leaves them as they were before it;
\* and a step that changes the tables changes an edge table together with
\* its counters: follows with followers_count and following_count, likes
\* with likes_count, ratings with the recomputed count and average.
C20_FailedWriteRollsBack ==
  [][/\ Tables' # Tables => (Returned' = Returned + 1 /\ last'.res = "ok")
     /\ (Returned' = Returned + 1 /\ last'.res = "StorageError")
          => Tables' = Tables
     /\ (follows' # follows) <=> (followersCount' # followersCount)
     /\ (follows' # follows) <=> (followingCount' # followingCount)
     /\ (likes' # likes) <=> (likesCount' # likesCount)
     /\ (likes' # likes) => \A p \in Posts : LikesMatchRows(p)'
     /\ (ratingsCount' # ratingsCount \/ averageRating' # averageRating)
          => ratings' # ratings
     /\ (ratings' # ratings) => \A i \in Itineraries : StatsMatchRatings(i)'
    ]_vars

\* An Unfollow failed inside its transaction and the edge with both its
\* counter effects is still there.
C20_Witness ==
  /\ last.op = "unfollow"
  /\ last.res = "StorageError"
  /\ follows[<<last.u, last.x>>] = 1
  /\ followersCount[last.x] = 1
  /\ followingCount[last.u] = 1

\* ---------------------------------------------------------------------
\* Errors as the caller sees them.

\* The failure kinds of the core operations.
DomainErrors ==
  {"NotFoundError", "AlreadyExistsError", "AlreadyRatedError",
   "NotRatedError", "NotLikedError", "SelfReferenceError", "ForbiddenError",
   "InvalidRangeError"}

\* C21: a core operation that fails with a domain error is answered with a
\* status of its own, never 500, and a similar listing of a source
\* itinerary that does not exist is answered 404.
C21_DomainErrorsKeepTheirKind ==
  /\ last.res \in DomainErrors
       => HTTPStatus(last) \notin {StatusOK, StatusInternalServerError}
  /\ (last.op = "getSimilar" /\ ~SourceFound(last.x))
       => HTTPStatus(last) = StatusNotFound

\* ---------------------------------------------------------------------
\* Deleted posts and itineraries.

PostListings == {"getFeed", "getPostsByAuthor", "getTrendingPosts"}

ItineraryListings == {"getTrending", "getSimilar"}

PostDeleted(p) == p \in DOMAIN postRows /\ postRows[p].deleted

ItineraryDeleted(i) == i \in DOMAIN itineraryRows /\ itineraryRows[i].deleted

C23_DeleteCascades ==
  /\ \A p \in Posts : PostDeleted(p) => \A u \in Accounts : likes[<<u, p>>] = 0
  /\ \A i \in Itineraries :
       ItineraryDeleted(i) => \A u \in Accounts : ratings[<<u, i>>] = <<>>

\* ---------------------------------------------------------------------
\* The counters of an account.

LivePostsBy(a) ==
  {p \in DOMAIN postRows : postRows[p].author = a /\ ~postRows[p].deleted}

LiveItinerariesBy(a) ==
  {i \in DOMAIN itineraryRows :
     itineraryRows[i].author = a /\ ~itineraryRows[i].deleted}

NoCallRunning == \A w \in Workers : pc[w] = "idle"

\* C24: whenever no call is running, posts_count of every account is the
\* number of its posts that are not deleted, and itineraries_count the
\* number of its itineraries that are not deleted.
C24_ContentCountsMatch ==
  NoCallRunning =>
    \A a \in Accounts :
      /\ postsCount[a] = Cardinality(LivePostsBy(a))
      /\ itinerariesCount[a] = Cardinality(LiveItinerariesBy(a))

\* C25: the commit of an Unlike lowers likes_count of its post by the
\* number of post_likes rows it removes, so by nothing when it removes
\* none, and no other step of an Unlike changes likes_count.
C25_UnlikeLowersByRowsRemoved ==
  [][\A w \in Workers :
       (call[w].op = "unlike" /\ pc'[w] # pc[w]) =>
         \A p \in Posts : likesCount[p] - likesCount'[p] = LikesOf(p) - LikesOf(p)'
    ]_vars

\* C26: followers_count, following_count, posts_count, itineraries_count
\* and likes_count are never negative.
C26_CountersNeverNegative ==
  /\ \A a \in Accounts :
       /\ followersCount[a] >= 0
       /\ followingCount[a] >= 0
       /\ postsCount[a] >= 0
       /\ itinerariesCount[a] >= 0
  /\ \A p \in Posts : likesCount[p] >= 0

\* C27: no step of an UpdateProfile or a ChangePassword changes
\* followers_count, following_count, posts_count or itineraries_count of
\* any account, whatever calls run in parallel with it.
C27_ProfileUpdateKeepsCounters ==
  [][\A w \in Workers :
       (call[w].op \in {"updateProfile", "changePassword"} /\ pc'[w] # pc[w])
         => UNCHANGED <<followersCount, followingCount, postsCount,
                        itinerariesCount>>
    ]_vars

\* ---------------------------------------------------------------------
\* Edits and views.

ViewsOf(i) == itineraryRows[i].viewsCount

\* C28: no step of an UpdatePost changes likes_count of a post, and no step
\* of an UpdateItinerary changes views_count, ratings_count or
\* average_rating of an itinerary, whatever calls run in parallel with it.
C28_EditKeepsCounters ==
  [][\A w \in Workers :
       /\ (call[w].op = "updatePost" /\ pc'[w] # pc[w])
            => likesCount' = likesCount
       /\ (call[w].op = "updateItinerary" /\ pc'[w] # pc[w])
            => /\ ratingsCount' = ratingsCount
               /\ averageRating' = averageRating
               /\ \A i \in DOMAIN itineraryRows :
                    itineraryRows'[i].viewsCount = ViewsOf(i)
    ]_vars

CountsAsView(v, i) ==
  /\ i \in DOMAIN itineraryRows
  /\ itineraryRows[i].author # v
  /\ itineraryRows[i].isPublic

====
